---------------------------- MODULE Spec2Model ----------------------------
(***************************************************************************)
(* A model of the stfc-stat-tracker snapshot reconciliation and            *)
(* notification code: send_hourly_alerts.py, send_discord_notification.py, *)
(* pull_api.py and db.py.                                                  *)
(*                                                                         *)
(* Python values are modelled as tagged records: None, an int, or a str    *)
(* whose text is a sequence of one-character strings, so that int(), str() *)
(* and parse_abbr() are computed on the characters as Python computes      *)
(* them.  A dict is a function whose DOMAIN is the set of keys present.    *)
(***************************************************************************)
EXTENDS Integers, Sequences, FiniteSets, TLC

(***************************************************************************)
(* Bounds of the model.                                                    *)
(***************************************************************************)
\* number of distinct member keys in the inputs of detect_changes
NumKeys == 3
\* number of calendar days the runs are spread over
MaxDay == 3

(***************************************************************************)
(* Program constants.                                                      *)
(***************************************************************************)
\* if len(curr_members) < 10 / len(members) < 10 / len(all_players) < 10
SanityThreshold == 10

VARIABLES
    \* inputs and result of one detect_changes(prev_members, curr_members) call
    prev_members, curr_members, changes,
    \* the arguments of find_inactive and find_power_movers, the result of each,
    \* and the snapshot get_snapshot_days_ago gave find_power_movers
    members, history, inactive, movers, snap7,
    \* the arguments of a call of one of the other functions of the code, and
    \* what the call returned or raised
    args, ret,
    \* datetime.now() as a day number
    today,
    \* the players and daily_snapshots tables of data/stfc.db
    players, daily_snapshots,
    \* data/latest.json
    latest_json,
    \* .sent_hourly_alerts, the dedup ledger
    sent_alerts,
    \* data/.last_notification_date
    last_notification_date,
    \* what the last run (one process from start to exit) did and how it exited
    run,
    \* history of the webhook under the date pair of the last posting run: the
    \* keys included in a posted payload, those included by two different runs,
    \* and those of a payload whose POST failed
    post_log,
    \* time.time() in hours, the text of data/.last_failure_alert (None when the
    \* file does not exist), and the times of the failure alerts posted
    clock, last_failure_alert, alert_log

detectVars == <<prev_members, curr_members, changes>>
reportVars == <<members, history, inactive, movers, snap7>>
callVars == <<args, ret>>
pureVars == <<prev_members, curr_members, changes, members, history, inactive, movers, snap7,
              args, ret>>
storeVars == <<players, daily_snapshots, latest_json>>
alertVars == <<clock, last_failure_alert, alert_log>>
pipelineVars == <<today, players, daily_snapshots, latest_json, sent_alerts,
                  last_notification_date, run, post_log, clock, last_failure_alert, alert_log>>
vars == <<prev_members, curr_members, changes, members, history, inactive, movers, snap7,
          args, ret, today, players, daily_snapshots, latest_json, sent_alerts,
          last_notification_date, run, post_log, clock, last_failure_alert, alert_log>>

(***************************************************************************)
(* Python values.                                                          *)
(***************************************************************************)
PyNone == [t |-> "none"]
PyInt(n) == [t |-> "int", v |-> n]
PyStr(s) == [t |-> "str", s |-> s]

\* the exception a call ended with, in place of its result
ValueError == [t |-> "raise", exc |-> "ValueError"]

\* bool(v): None, 0 and "" are falsy
Truthy(v) ==
    CASE v.t = "none" -> FALSE
      [] v.t = "int" -> v.v # 0
      [] v.t = "str" -> Len(v.s) > 0
      [] OTHER -> TRUE

\* a or b
PyOr(a, b) == IF Truthy(a) THEN a ELSE b

\* d.get(k, default)
Get(d, k, default) == IF k \in DOMAIN d THEN d[k] ELSE default

Digits == <<"0", "1", "2", "3", "4", "5", "6", "7", "8", "9">>

DigitSet == {Digits[i] : i \in 1..10}

DigitVals == [c \in DigitSet |-> (CHOOSE i \in 1..10 : Digits[i] = c) - 1]

IsDigit(c) == c \in DigitSet

DigitVal(c) == DigitVals[c]

IsSpace(c) == c \in {" ", "\t", "\n"}

\* s.strip()
RECURSIVE LStrip(_)
LStrip(s) == IF Len(s) > 0 /\ IsSpace(Head(s)) THEN LStrip(Tail(s)) ELSE s

RECURSIVE RStrip(_)
RStrip(s) ==
    IF Len(s) > 0 /\ IsSpace(s[Len(s)]) THEN RStrip(SubSeq(s, 1, Len(s) - 1)) ELSE s

Strip(s) == RStrip(LStrip(s))

\* the value of a non-empty sequence of digits
RECURSIVE DigitsValue(_)
DigitsValue(s) ==
    IF Len(s) = 0 THEN 0
    ELSE 10 * DigitsValue(SubSeq(s, 1, Len(s) - 1)) + DigitVal(s[Len(s)])

AllDigits(s) == Len(s) > 0 /\ \A i \in 1..Len(s) : IsDigit(s[i])

\* int(v) for an int or a str: surrounding whitespace and one sign are accepted,
\* anything else than decimal digits raises ValueError
IntOf(v) ==
    IF v.t = "int" THEN v
    ELSE LET s == Strip(v.s)
             body == IF Len(s) > 0 /\ Head(s) \in {"+", "-"} THEN Tail(s) ELSE s
         IN IF ~AllDigits(body) THEN ValueError
            ELSE IF Len(s) > 0 /\ Head(s) = "-" THEN PyInt(0 - DigitsValue(body))
            ELSE PyInt(DigitsValue(body))

\* str(n) for an int n
RECURSIVE NatStr(_)
NatStr(n) ==
    IF n < 10 THEN <<Digits[n + 1]>> ELSE NatStr(n \div 10) \o <<Digits[(n % 10) + 1]>>

StrOfInt(n) == IF n < 0 THEN <<"-">> \o NatStr(0 - n) ELSE NatStr(n)

(***************************************************************************)
(* Ordering of str keys: Python compares strings character by character.   *)
(***************************************************************************)
Alphabet == <<" ", "+", "-", ".", "0", "1", "2", "3", "4", "5", "6", "7", "8", "9",
              ":", "?", "A", "B", "C", "D">>

CharCodes == [c \in {Alphabet[i] : i \in 1..Len(Alphabet)} |->
                CHOOSE i \in 1..Len(Alphabet) : Alphabet[i] = c]

CharCode(c) == CharCodes[c]

RECURSIVE StrLess(_, _)
StrLess(a, b) ==
    IF Len(b) = 0 THEN FALSE
    ELSE IF Len(a) = 0 THEN TRUE
    ELSE IF Head(a) = Head(b) THEN StrLess(Tail(a), Tail(b))
    ELSE CharCode(Head(a)) < CharCode(Head(b))

\* insertion of key k into the sorted sequence q
RECURSIVE InsertKey(_, _)
InsertKey(q, k) ==
    IF Len(q) = 0 THEN <<k>>
    ELSE IF StrLess(k, Head(q)) THEN <<k>> \o q
    ELSE <<Head(q)>> \o InsertKey(Tail(q), k)

\* sorted(S) for a set of str keys
RECURSIVE SortedKeys(_)
SortedKeys(S) ==
    IF S = {} THEN <<>>
    ELSE LET k == CHOOSE x \in S : TRUE
         IN InsertKey(SortedKeys(S \ {k}), k)

(***************************************************************************)
(* send_hourly_alerts.detect_changes                                       *)
(***************************************************************************)
\* the entry appended to joined and to left for member m stored under key mid
MemberEntry(m, mid) ==
    [name |-> Get(m, "name", PyStr(mid)),
     level |-> Get(m, "level", PyStr(<<"?">>)),
     power |-> Get(m, "power", PyStr(<<"0">>))]

\* int(m.get("level", "0") or "0")
LevelOf(m) == IntOf(PyOr(Get(m, "level", PyStr(<<"0">>)), PyStr(<<"0">>)))

JoinedIdsAll(prev, curr) == DOMAIN curr
\* curr_ids - prev_ids
JoinedIds(prev, curr) == DOMAIN curr \ DOMAIN prev

\* prev_ids - curr_ids
LeftIds(prev, curr) == DOMAIN prev \ DOMAIN curr

\* prev_ids & curr_ids
CommonIds(prev, curr) == DOMAIN prev \cap DOMAIN curr

IsLevelUpOrEqual(prev_level, curr_level) == curr_level >= prev_level
\* if curr_level > prev_level
IsLevelUp(prev_level, curr_level) == curr_level > prev_level

\* the loop over sorted(prev_ids & curr_ids); a level that int() rejects ends
\* the whole call with ValueError
RECURSIVE LevelUpLoop(_, _, _, _)
LevelUpLoop(prev, curr, ids, acc) ==
    IF Len(ids) = 0 THEN [t |-> "ok", events |-> acc]
    ELSE LET mid == Head(ids)
             prev_level == LevelOf(prev[mid])
             curr_level == LevelOf(curr[mid])
         IN IF prev_level.t = "raise" \/ curr_level.t = "raise" THEN ValueError
            ELSE LevelUpLoop(prev, curr, Tail(ids),
                   IF IsLevelUp(prev_level.v, curr_level.v)
                   THEN Append(acc, [name |-> Get(curr[mid], "name", PyStr(mid)),
                                     old_level |-> PyStr(StrOfInt(prev_level.v)),
                                     new_level |-> PyStr(StrOfInt(curr_level.v))])
                   ELSE acc)

detect_changes(prev, curr) ==
    LET joinedIds == SortedKeys(JoinedIds(prev, curr))
        leftIds == SortedKeys(LeftIds(prev, curr))
        joined == [i \in 1..Len(joinedIds) |-> MemberEntry(curr[joinedIds[i]], joinedIds[i])]
        left == [i \in 1..Len(leftIds) |-> MemberEntry(prev[leftIds[i]], leftIds[i])]
        ups == LevelUpLoop(prev, curr, SortedKeys(CommonIds(prev, curr)), <<>>)
    IN IF ups.t = "raise" THEN ups
       ELSE [t |-> "ok", joined |-> joined, left |-> left, level_ups |-> ups.events]

\* has_changes(changes)
has_changes(c) == Len(c.joined) > 0 \/ Len(c.left) > 0 \/ Len(c.level_ups) > 0

(***************************************************************************)
(* detect_changes on bounded inputs.  Levels are the values the snapshot   *)
(* store and the test fixtures supply: ints, decimal strings, None, or no  *)
(* level key at all.                                                       *)
(***************************************************************************)
KeySet == {NatStr(i) : i \in 1..NumKeys}

PrevRecs ==
    {[name |-> PyStr(<<"A">>), level |-> PyInt(39), power |-> PyInt(80)],
     [name |-> PyStr(<<"A">>), level |-> PyStr(<<"4", "0">>), power |-> PyInt(80)],
     [name |-> PyStr(<<"A">>), power |-> PyInt(80)]}

CurrRecs ==
    {[name |-> PyStr(<<"A">>), level |-> PyInt(39), power |-> PyInt(80)],
     [name |-> PyStr(<<"B">>), level |-> PyStr(<<"4", "0">>), power |-> PyInt(85)],
     [name |-> PyStr(<<"B">>), level |-> PyNone, power |-> PyInt(85)],
     [level |-> PyInt(41)]}

DictsOver(recs) == UNION {[K -> recs] : K \in SUBSET KeySet}

NoLedger == [exists |-> FALSE, dates |-> <<0, 0>>, sent |-> {}]

NoLatest == [exists |-> FALSE, date |-> 0, members |-> {}]

\* prog: the script; exit: its exit status; exc: it ended in an unhandled
\* exception; stop: the return or sys.exit it left by; steps: the calls with an
\* effect it made; fetched: len(all_players), -1 for None; dates: the date pair
\* compared; saved_dates, saved_keys: what _load_sent_alerts returned; detected:
\* the keys of the changes detect_changes found; attempted: the keys of the
\* events in the embeds handed to post_webhook; failed: the embeds whose POST failed
NoRun == [prog |-> "none", exit |-> 0, exc |-> FALSE, stop |-> "", steps |-> {},
          fetched |-> 0, dates |-> <<0, 0>>, saved_dates |-> <<0, 0>>, saved_keys |-> {},
          detected |-> {}, attempted |-> {}, failed |-> {}]

FilesIdle ==
    /\ players = <<>>
    /\ daily_snapshots = <<>>
    /\ latest_json = NoLatest
    /\ sent_alerts = NoLedger
    /\ last_notification_date = 0
    /\ run = NoRun
    /\ post_log = [dates |-> <<0, 0>>, posted |-> {}, resent |-> {}, failed |-> {}]

AlertIdle == clock = 0 /\ last_failure_alert = PyNone /\ alert_log = {}

PipelineIdle == today = 1 /\ FilesIdle /\ AlertIdle

DetectIdle == prev_members = <<>> /\ curr_members = <<>> /\ changes = PyNone

ReportIdle ==
    members = <<>> /\ history = <<>> /\ inactive = PyNone /\ movers = PyNone /\ snap7 = PyNone

CallIdle == args = <<>> /\ ret = PyNone

DetectInit ==
    /\ PipelineIdle
    /\ ReportIdle
    /\ CallIdle
    /\ prev_members \in DictsOver(PrevRecs)
    /\ curr_members \in DictsOver(CurrRecs)
    /\ changes = PyNone

DetectChanges ==
    /\ changes = PyNone
    /\ changes' = detect_changes(prev_members, curr_members)
    /\ UNCHANGED <<prev_members, curr_members>>
    /\ UNCHANGED reportVars
    /\ UNCHANGED callVars
    /\ UNCHANGED pipelineVars

DetectNext == DetectChanges

SpecDetect == DetectInit /\ [][DetectNext]_vars

Bijections(S, T) == {f \in [S -> T] : \A u \in T : \E x \in S : f[x] = u /\ \A y \in S : f[y] = u => y = x}

\* C1: joined holds exactly one entry for each key of curr that is not in prev,
\* left exactly one entry for each key of prev that is not in curr, and so a key
\* present in both snapshots contributes to neither list, whatever became of its
\* name, level or power.
C1_JoinedLeftAreSetDifferences ==
    changes.t = "ok" =>
        /\ \E f \in Bijections(DOMAIN changes.joined, DOMAIN curr_members \ DOMAIN prev_members) :
              \A i \in DOMAIN changes.joined :
                  changes.joined[i] = MemberEntry(curr_members[f[i]], f[i])
        /\ \E f \in Bijections(DOMAIN changes.left, DOMAIN prev_members \ DOMAIN curr_members) :
              \A i \in DOMAIN changes.left :
                  changes.left[i] = MemberEntry(prev_members[f[i]], f[i])

\* a key joined, a key left, and a key in both snapshots changed name, level and power
C1_Witness ==
    /\ changes.t = "ok"
    /\ Len(changes.joined) = 1
    /\ Len(changes.left) = 1
    /\ \E k \in DOMAIN prev_members \cap DOMAIN curr_members :
          /\ Get(prev_members[k], "name", PyNone) # Get(curr_members[k], "name", PyNone)
          /\ Get(prev_members[k], "power", PyNone) # Get(curr_members[k], "power", PyNone)
          /\ LevelOf(prev_members[k]) # LevelOf(curr_members[k])

\* the keys present in both snapshots whose integer level rose
RisenKeys ==
    {k \in DOMAIN prev_members \cap DOMAIN curr_members :
        LevelOf(curr_members[k]).v > LevelOf(prev_members[k]).v}

\* C2: the level-up events are in one-to-one correspondence with the keys present
\* in both snapshots whose integer level is strictly greater in curr than in prev;
\* each event carries the old and the new level as decimal strings; equal or
\* decreased levels give no event and the call returns normally.
C2_LevelUpIffStrictlyGreater ==
    changes # PyNone =>
        /\ changes.t = "ok"
        /\ \E f \in Bijections(DOMAIN changes.level_ups, RisenKeys) :
              \A i \in DOMAIN changes.level_ups :
                  LET e == changes.level_ups[i] IN
                  /\ e.name = Get(curr_members[f[i]], "name", PyStr(f[i]))
                  /\ e.old_level.t = "str" /\ AllDigits(e.old_level.s)
                  /\ e.new_level.t = "str" /\ AllDigits(e.new_level.s)
                  /\ IntOf(e.old_level) = LevelOf(prev_members[f[i]])
                  /\ IntOf(e.new_level) = LevelOf(curr_members[f[i]])

\* three keys in both snapshots: one level rose, one stayed, one fell
C2_Witness ==
    /\ changes.t = "ok"
    /\ Len(changes.level_ups) = 1
    /\ changes.level_ups[1].old_level = PyStr(<<"3", "9">>)
    /\ changes.level_ups[1].new_level = PyStr(<<"4", "0">>)
    /\ \E k \in DOMAIN prev_members \cap DOMAIN curr_members :
          LevelOf(curr_members[k]).v = LevelOf(prev_members[k]).v
    /\ \E k \in DOMAIN prev_members \cap DOMAIN curr_members :
          LevelOf(curr_members[k]).v < LevelOf(prev_members[k]).v

(***************************************************************************)
(* db.py: the snapshot store.  A date is a day number (ISO date strings    *)
(* compare as the days do).  players maps player_id to its row,            *)
(* daily_snapshots maps <<player_id, date>> to its row.                    *)
(***************************************************************************)
\* NCC_ALLIANCE_ID, and the alliance_id of a player of another alliance
NCC_ALLIANCE_ID == "3974286889"
OTHER_ALLIANCE_ID == "0"

\* one iteration of the loop of upsert_players: both ON CONFLICT upserts
UpsertOne(tabs, m, date) ==
    LET player_id == IntOf(m.id).v
        old == tabs.players
        prow == IF player_id \in DOMAIN old
                THEN [old[player_id] EXCEPT !.name = m.name,
                                            !.alliance_id = m.alliance_id,
                                            !.last_seen = date]
                ELSE [name |-> m.name, alliance_id |-> m.alliance_id,
                      first_seen |-> date, last_seen |-> date]
        srow == [level |-> m.level.v, power |-> m.power.v, alliance_id |-> m.alliance_id]
    IN [players |-> (player_id :> prow) @@ old,
        snaps |-> (<<player_id, date>> :> srow) @@ tabs.snaps]

RECURSIVE UpsertLoop(_, _, _)
UpsertLoop(tabs, mapped_players, date) ==
    IF Len(mapped_players) = 0 THEN tabs
    ELSE UpsertLoop(UpsertOne(tabs, Head(mapped_players), date), Tail(mapped_players), date)

\* upsert_players(conn, mapped_players, date), committed
upsert_players(tabs, mapped_players, date) == UpsertLoop(tabs, mapped_players, date)

DatesOfAnyAlliance(snaps) == {k[2] : k \in DOMAIN snaps}
\* SELECT DISTINCT date FROM daily_snapshots WHERE alliance_id = ?
AllianceDates(snaps) == {k[2] : k \in {r \in DOMAIN snaps : snaps[r].alliance_id = NCC_ALLIANCE_ID}}

MaxOf(S) == CHOOSE x \in S : \A y \in S : y <= x

\* get_latest_two_dates: (prev_date, curr_date), or (None, None) written <<0, 0>>
get_latest_two_dates(snaps) ==
    LET dates == AllianceDates(snaps)
    IN IF Cardinality(dates) < 2 THEN <<0, 0>>
       ELSE <<MaxOf(dates \ {MaxOf(dates)}), MaxOf(dates)>>

\* the player ids with a row of the alliance on that date
AlliancePlayersOn(snaps, date) ==
    {k[1] : k \in {r \in DOMAIN snaps : r[2] = date /\ snaps[r].alliance_id = NCC_ALLIANCE_ID}}

\* get_members_for_date: {str(pid): {id, name, level or 0, power or 0}}
get_members_for_date(tabs, date) ==
    LET pids == AlliancePlayersOn(tabs.snaps, date)
    IN [k \in {NatStr(q) : q \in pids} |->
            LET pid == DigitsValue(k)
            IN [id |-> PyStr(k), name |-> tabs.players[pid].name,
                level |-> PyInt(tabs.snaps[<<pid, date>>].level),
                power |-> PyInt(tabs.snaps[<<pid, date>>].power)]]

\* export_latest_json: the members of the most recent date of the alliance; no
\* file is written while the alliance has no row.  The members list is kept as
\* the set of its player ids.
export_latest_json(tabs, old) ==
    LET dates == AllianceDates(tabs.snaps)
    IN IF dates = {} THEN old
       ELSE [exists |-> TRUE, date |-> MaxOf(dates),
             members |-> AlliancePlayersOn(tabs.snaps, MaxOf(dates))]

(***************************************************************************)
(* pull_api.py: the ingestion run.                                         *)
(***************************************************************************)
CorePlayers == 1..(SanityThreshold - 1)
Outsider == SanityThreshold
ExtraPlayers == {SanityThreshold + 1, SanityThreshold + 2}

\* map_player(raw)
map_player(pid, alliance_id, level) ==
    [id |-> PyStr(NatStr(pid)), name |-> PyStr(<<"P">> \o NatStr(pid)),
     level |-> PyInt(level), power |-> PyInt(1000), alliance_id |-> alliance_id]

\* a fetched player list: the alliance members ids, the players of other
\* alliances others, and the level of player 1
RECURSIVE PlayerList(_, _, _)
PlayerList(ids, others, level1) ==
    IF ids \cup others = {} THEN <<>>
    ELSE LET pid == CHOOSE q \in ids \cup others : \A r \in ids \cup others : q <= r
         IN <<map_player(pid,
                         IF pid \in ids THEN NCC_ALLIANCE_ID ELSE OTHER_ALLIANCE_ID,
                         IF pid = 1 THEN level1 ELSE 30)>>
            \o PlayerList(ids \ {pid}, others \ {pid}, level1)

\* what fetch_all_players returns when the API answers: the core members with
\* one of the extra members and player 1 at level 39, or with both and player 1
\* risen to 40
FullScrapes ==
    {PlayerList(CorePlayers \cup {x}, {}, 39) : x \in ExtraPlayers}
        \cup {PlayerList(CorePlayers \cup ExtraPlayers, {}, 40)}

\* ... or a server list on which the alliance has 9 or 10 members, or a list cut
\* short of 10 players
ThinScrapes ==
    {PlayerList(CorePlayers \cup {SanityThreshold + 1}, {Outsider}, l) : l \in {39, 40}}
        \cup {PlayerList(CorePlayers, {Outsider}, 39), PlayerList(CorePlayers, {}, 39)}

Tables == [players |-> players, snaps |-> daily_snapshots]

ThresholdExitZero(prog) == 0
\* the status of the sys.exit that follows the member-count check of each script
ThresholdExit(prog) == IF prog = "pull_api" THEN 1 ELSE 0

BelowThresholdNever(n) == FALSE
\* len(...) < 10
BelowThreshold(n) == n < SanityThreshold

\* main(): fetch_all_players returned None (cookies expired, API error)
PullFetchFailed ==
    /\ run' = [NoRun EXCEPT !.prog = "pull_api", !.exit = 1, !.stop = "fetch_failed",
                            !.fetched = -1]
    /\ UNCHANGED <<today, players, daily_snapshots, latest_json, sent_alerts,
                   last_notification_date, post_log>>
    /\ UNCHANGED pureVars
    /\ UNCHANGED alertVars

\* main(): the list was fetched; fewer than 10 players skip save_data
PullRun(scrapes) ==
    \E all_players \in scrapes :
        /\ IF BelowThreshold(Len(all_players))
           THEN /\ run' = [NoRun EXCEPT !.prog = "pull_api", !.exit = ThresholdExit("pull_api"),
                                        !.stop = "below_threshold",
                                        !.fetched = Len(all_players)]
                /\ UNCHANGED <<players, daily_snapshots, latest_json>>
           ELSE \E tabs \in {upsert_players(Tables, all_players, today)} :
                   /\ players' = tabs.players
                   /\ daily_snapshots' = tabs.snaps
                   /\ latest_json' = export_latest_json(tabs, latest_json)
                   /\ run' = [NoRun EXCEPT !.prog = "pull_api", !.stop = "saved",
                                           !.steps = {"upsert_players", "export_latest_json"},
                                           !.fetched = Len(all_players)]
        /\ UNCHANGED <<today, sent_alerts, last_notification_date, post_log>>
        /\ UNCHANGED pureVars
        /\ UNCHANGED alertVars

(***************************************************************************)
(* send_hourly_alerts.py: the hourly alert run.                            *)
(***************************************************************************)
Categories == <<"joined", "left", "level_ups">>

Chars_joined == <<"j", "o", "i", "n", "e", "d">>
Chars_left == <<"l", "e", "f", "t">>
Chars_levelup == <<"l", "e", "v", "e", "l", "u", "p">>

\* _make_change_key(change_type, item)
make_change_key(change_type, item) ==
    IF change_type = "level_ups"
    THEN Chars_levelup \o <<":">> \o item.name.s \o <<":">> \o item.new_level.s
    ELSE (IF change_type = "joined" THEN Chars_joined ELSE Chars_left)
            \o <<":">> \o item.name.s

\* _load_sent_alerts(): (saved dates, sent keys); (None, set()) without a file
load_sent_alerts(file) == IF file.exists THEN <<file.dates, file.sent>> ELSE <<<<0, 0>>, {}>>

\* _save_sent_alerts(dates_key, sent_keys)
save_sent_alerts(dates_key, sent_keys) == [exists |-> TRUE, dates |-> dates_key, sent |-> sent_keys]

KeepSavedKeysAlways(saved_dates, dates_key, saved_keys) == saved_keys
ForgetSavedKeys(saved_dates, dates_key, saved_keys) == {}
\* if saved_dates != dates_key: sent_keys = set()
ScopedSentKeys(saved_dates, dates_key, saved_keys) ==
    IF saved_dates # dates_key THEN {} ELSE saved_keys

FilterNothing(c, sent_keys) == c
\* _filter_unsent(changes, sent_keys)
filter_unsent(c, sent_keys) ==
    LET Unsent(change_type) ==
            LET Keep(item) == make_change_key(change_type, item) \notin sent_keys
            IN SelectSeq(c[change_type], Keep)
    IN [t |-> "ok", joined |-> Unsent("joined"), left |-> Unsent("left"),
        level_ups |-> Unsent("level_ups")]

\* the keys of the events of one category of a change set
CategoryKeys(c, change_type) ==
    {make_change_key(change_type, c[change_type][i]) : i \in DOMAIN c[change_type]}

\* the keys of all the events of a change set
ChangeKeys(c) == UNION {CategoryKeys(c, Categories[n]) : n \in 1..3}

\* build_alert_embeds(changes): one embed per non-empty category, in this order
build_alert_embeds(c) ==
    LET Keep(change_type) == Len(c[change_type]) > 0
    IN SelectSeq(Categories, Keep)

RecordDeliveredOnly(c, failed) == ChangeKeys(c) \ UNION {CategoryKeys(c, e) : e \in failed}
\* the keys main() adds to sent_keys after the POSTs, "even partial success"
RecordedKeys(c, failed) == ChangeKeys(c)

\* main() of send_hourly_alerts: each local of main() is bound to its one value;
\* webhook_url is what load_webhook_url() returns (TRUE: a URL), failed the
\* embeds for which post_webhook returns False
HourlyRun ==
    \E dates \in {get_latest_two_dates(daily_snapshots)} :
    \E prev \in {get_members_for_date(Tables, dates[1])},
       curr \in {get_members_for_date(Tables, dates[2])} :
    \E detected \in {detect_changes(prev, curr)},
       loaded \in {load_sent_alerts(sent_alerts)} :
    \E sent_keys \in {ScopedSentKeys(loaded[1], dates, loaded[2])} :
    \E unsent \in {filter_unsent(detected, sent_keys)} :
    \E embeds \in {build_alert_embeds(unsent)}, attempted \in {ChangeKeys(unsent)} :
    LET Ran == [NoRun EXCEPT !.prog = "hourly", !.dates = dates]
        Detected == [Ran EXCEPT !.steps = {"detect_changes"}, !.detected = ChangeKeys(detected)]
        Loaded == [Detected EXCEPT !.saved_dates = loaded[1], !.saved_keys = loaded[2]]
        Exit(r, code, stop) ==
            /\ run' = [r EXCEPT !.exit = code, !.stop = stop]
            /\ UNCHANGED <<sent_alerts, post_log>>
    IN /\ IF dates = <<0, 0>> THEN Exit(Ran, 0, "not_enough_snapshots")
          ELSE IF BelowThreshold(Cardinality(DOMAIN curr))
                    \/ BelowThreshold(Cardinality(DOMAIN prev))
               THEN Exit(Ran, ThresholdExit("hourly"), "below_threshold")
          ELSE IF detected.t = "raise"
               THEN Exit([Ran EXCEPT !.exc = TRUE], 1, "exception")
          ELSE IF ~has_changes(detected) THEN Exit(Detected, 0, "no_changes")
          ELSE IF ~has_changes(unsent) THEN Exit(Loaded, 0, "already_alerted")
          ELSE \E webhook_url \in BOOLEAN :
                 IF ~webhook_url THEN Exit(Loaded, 0, "no_webhook")
                 ELSE \E failed \in SUBSET {embeds[i] : i \in DOMAIN embeds} :
                        /\ sent_alerts' = save_sent_alerts(dates,
                                             sent_keys \cup RecordedKeys(unsent, failed))
                        /\ post_log' =
                             LET lost == UNION {CategoryKeys(unsent, e) : e \in failed}
                             IN IF post_log.dates = dates
                                THEN [dates |-> dates,
                                      posted |-> post_log.posted \cup attempted,
                                      resent |-> post_log.resent
                                                   \cup (post_log.posted \cap attempted),
                                      failed |-> post_log.failed \cup lost]
                                ELSE [dates |-> dates, posted |-> attempted, resent |-> {},
                                      failed |-> lost]
                        /\ run' = [Loaded EXCEPT !.exit = IF failed # {} THEN 1 ELSE 0,
                                                 !.stop = "sent",
                                                 !.steps = {"detect_changes", "post_webhook",
                                                            "save_sent_alerts"},
                                                 !.attempted = attempted,
                                                 !.failed = failed]
       /\ UNCHANGED <<today, players, daily_snapshots, latest_json, last_notification_date>>
       /\ UNCHANGED pureVars
       /\ UNCHANGED alertVars

(***************************************************************************)
(* send_discord_notification.py: the daily report run.                     *)
(***************************************************************************)
SentTodayNever == FALSE
\* already_sent_today()
already_sent_today == last_notification_date # 0 /\ last_notification_date = today

\* main() of send_discord_notification
DailyRun ==
    \E webhook_url \in BOOLEAN, post_ok \in BOOLEAN :
        LET Ran == [NoRun EXCEPT !.prog = "daily"]
            Exit(code, stop, steps) ==
                /\ run' = [Ran EXCEPT !.exit = code, !.stop = stop, !.steps = steps]
                /\ UNCHANGED last_notification_date
        IN /\ IF already_sent_today THEN Exit(0, "already_sent", {})
              ELSE IF ~webhook_url THEN Exit(0, "no_webhook", {})
              ELSE IF ~latest_json.exists THEN Exit(1, "no_latest", {})
              ELSE IF BelowThreshold(Cardinality(latest_json.members))
                   THEN Exit(ThresholdExit("daily"), "below_threshold", {})
              ELSE IF ~post_ok THEN Exit(1, "post_failed", {"build_embed", "post_webhook"})
              ELSE /\ last_notification_date' = today
                   /\ run' = [Ran EXCEPT !.stop = "sent",
                                         !.steps = {"build_embed", "post_webhook",
                                                    "mark_sent_today"}]
           /\ UNCHANGED <<today, players, daily_snapshots, latest_json, sent_alerts, post_log>>
           /\ UNCHANGED pureVars
           /\ UNCHANGED alertVars

\* midnight passes between two runs
NextDay ==
    /\ today < MaxDay
    /\ today' = today + 1
    /\ UNCHANGED <<players, daily_snapshots, latest_json, sent_alerts,
                   last_notification_date, run, post_log>>
    /\ UNCHANGED pureVars
    /\ UNCHANGED alertVars

Init == DetectIdle /\ ReportIdle /\ CallIdle /\ PipelineIdle

Next == PullFetchFailed \/ PullRun(ThinScrapes) \/ HourlyRun \/ DailyRun \/ NextDay

Spec == Init /\ [][Next]_vars

HourlyNext == PullRun(FullScrapes) \/ HourlyRun \/ NextDay

SpecHourly == Init /\ [][HourlyNext]_vars

(***************************************************************************)
(* Properties of the hourly alert run.                                     *)
(***************************************************************************)
\* C3: while the ledger holds the same date pair, each change key is part of a
\* posted payload in at most one run: no key of the webhook history was posted by
\* two runs of one pair, and a run that finds its own pair in the ledger posts
\* none of the keys the ledger held
C3_KeyPostedInAtMostOneRun ==
    /\ post_log.resent = {}
    /\ (run.prog = "hourly" /\ run.stop = "sent" /\ run.saved_dates = run.dates)
          => run.attempted \cap run.saved_keys = {}

\* a second run over the same pair found every change already in the ledger
C3_Witness ==
    /\ run.prog = "hourly"
    /\ run.stop = "already_alerted"
    /\ run.saved_dates = run.dates
    /\ post_log.dates = run.dates
    /\ run.detected # {}
    /\ run.detected \subseteq post_log.posted

\* C4: a run whose date pair differs from the ledger's starts from an empty sent
\* set: it never stops on "already alerted", and with a webhook it posts every
\* change it detected, those whose key the ledger held under the old pair included
C4_NewDatePairResetsLedger ==
    (run.prog = "hourly" /\ run.saved_dates # run.dates)
        => /\ run.stop # "already_alerted"
           /\ run.stop = "sent" => run.attempted = run.detected

\* a key recorded under one pair is posted again under the next pair
C4_Witness ==
    /\ run.prog = "hourly"
    /\ run.stop = "sent"
    /\ run.saved_dates # <<0, 0>>
    /\ run.saved_dates # run.dates
    /\ run.saved_keys \cap run.attempted # {}

\* C5: once the POSTs are made, the ledger holds the run's date pair and every
\* key of the payloads attempted, failed ones included; the run exits 1 exactly
\* when a POST failed; and no key of a failed payload is posted by a later run of
\* the same pair
C5_AttemptedKeysPersisted ==
    /\ (run.prog = "hourly" /\ "post_webhook" \in run.steps)
          => /\ sent_alerts.exists
             /\ sent_alerts.dates = run.dates
             /\ run.attempted \subseteq sent_alerts.sent
             /\ run.exit = (IF run.failed # {} THEN 1 ELSE 0)
    /\ post_log.failed \subseteq sent_alerts.sent
    /\ post_log.failed \cap post_log.resent = {}

\* a later run over the pair of a failed POST attempts nothing
C5_Witness ==
    /\ run.prog = "hourly"
    /\ run.stop = "already_alerted"
    /\ post_log.dates = run.dates
    /\ post_log.failed # {}
    /\ post_log.failed \subseteq run.saved_keys

(***************************************************************************)
(* Properties of the member-count threshold.                               *)
(***************************************************************************)
\* a step other than the passing of midnight: one run of a script
RunStep(prog) == today' = today /\ run'.prog = prog

\* the member counts an hourly run started now would compare with the threshold
HourlyCountsBelow ==
    LET dates == get_latest_two_dates(daily_snapshots)
    IN /\ dates # <<0, 0>>
       /\ \/ Cardinality(AlliancePlayersOn(daily_snapshots, dates[1])) < SanityThreshold
          \/ Cardinality(AlliancePlayersOn(daily_snapshots, dates[2])) < SanityThreshold

\* C6: a run that meets a member count below 10 (hourly: either snapshot; daily:
\* the members of latest.json; ingest: the fetched list) makes none of its
\* downstream calls and leaves the store, the ledger and the marker as they were
C6_BelowThresholdNothingDownstream ==
    [][/\ (RunStep("hourly") /\ HourlyCountsBelow)
            => /\ run'.steps = {}
               /\ UNCHANGED <<sent_alerts, post_log, last_notification_date, storeVars>>
       /\ (RunStep("daily") /\ latest_json.exists
              /\ Cardinality(latest_json.members) < SanityThreshold)
            => /\ run'.steps = {}
               /\ UNCHANGED <<sent_alerts, post_log, last_notification_date, storeVars>>
       /\ (RunStep("pull_api") /\ run'.fetched >= 0 /\ run'.fetched < SanityThreshold)
            => /\ run'.steps = {}
               /\ UNCHANGED <<sent_alerts, post_log, last_notification_date, storeVars>>
      ]_vars

\* an hourly run stopped at the threshold with a ledger and a marker on disk
C6_Witness ==
    /\ run.prog = "hourly"
    /\ run.stop = "below_threshold"
    /\ sent_alerts.exists
    /\ last_notification_date # 0

\* C7 as stated: every run stopped by the threshold exits non-zero, without an
\* unhandled exception
C7_AllThresholdStopsExitNonZero ==
    run.stop = "below_threshold" => (run.exit # 0 /\ ~run.exc)

\* C7: no run stopped by the threshold ends in an unhandled exception; the
\* ingestion run exits 1, the hourly and the daily run exit 0
C7_ThresholdStopExitStatus ==
    run.stop = "below_threshold"
        => /\ ~run.exc
           /\ run.prog = "pull_api" => run.exit = 1
           /\ run.prog \in {"hourly", "daily"} => run.exit = 0

\* a daily run stopped by the threshold, exit status 0
C7_Witness ==
    /\ run.prog = "daily"
    /\ run.stop = "below_threshold"
    /\ run.exit = 0
    /\ ~run.exc

(***************************************************************************)
(* send_discord_notification.py: abbreviated numbers.  A float is kept as  *)
(* the decimal m * 10^e with m not a multiple of 10 (0 is m = 0, e = 0);   *)
(* the inputs are numbers whose double arithmetic is exact.                *)
(***************************************************************************)
NUMERIC_FIELDS == <<"level", "power", "helps", "rss_contrib", "iso_contrib",
                    "players_killed", "hostiles_killed", "resources_mined",
                    "resources_raided">>

RECURSIVE Norm(_, _)
Norm(m, e) ==
    IF m = 0 THEN [t |-> "num", m |-> 0, e |-> 0]
    ELSE IF m % 10 = 0 THEN Norm(m \div 10, e + 1)
    ELSE [t |-> "num", m |-> m, e |-> e]

Zero == Norm(0, 0)

RECURSIVE Pow10(_)
Pow10(k) == IF k = 0 THEN 1 ELSE 10 * Pow10(k - 1)

\* a - b
NumSub(a, b) ==
    LET e == IF a.e < b.e THEN a.e ELSE b.e
    IN Norm(a.m * Pow10(a.e - e) - b.m * Pow10(b.e - e), e)

\* a < b
NumLess(a, b) == NumSub(a, b).m < 0

\* str(v)
StrOf(v) == IF v.t = "int" THEN StrOfInt(v.v) ELSE v.s

\* s.replace(",", "")
RemoveCommas(s) == SelectSeq(s, LAMBDA c : c # ",")

\* the length of the longest prefix of s made of characters of set cs
RECURSIVE PrefixLen(_, _)
PrefixLen(s, cs) ==
    IF Len(s) > 0 /\ Head(s) \in cs THEN 1 + PrefixLen(Tail(s), cs) ELSE 0

SuffixExp ==
    [c \in {"K", "M", "B", "T", "Q", "k", "m", "b", "t", "q"} |->
        CASE c \in {"K", "k"} -> 3
          [] c \in {"M", "m"} -> 6
          [] c \in {"B", "b"} -> 9
          [] c \in {"T", "t"} -> 12
          [] c \in {"Q", "q"} -> 15]

\* re.match(r"^([\d.]+)\s*([KMBQT]?)$", s, re.IGNORECASE): group 1 and the
\* exponent of the multiplier of group 2; $ also matches before a final newline
AbbrMatch(s) ==
    LET n == PrefixLen(s, DigitSet \cup {"."})
        rest == SubSeq(s, n + 1, Len(s))
        w == PrefixLen(rest, {" ", "\t", "\n"})
        tail == SubSeq(rest, w + 1, Len(rest))
        NoMatch == [ok |-> FALSE, num |-> <<>>, exp |-> 0]
    IN IF n = 0 THEN NoMatch
       ELSE IF Len(tail) = 0 THEN [ok |-> TRUE, num |-> SubSeq(s, 1, n), exp |-> 0]
       ELSE IF tail[1] \in DOMAIN SuffixExp /\ (Len(tail) = 1 \/ tail = <<tail[1], "\n">>)
            THEN [ok |-> TRUE, num |-> SubSeq(s, 1, n), exp |-> SuffixExp[tail[1]]]
       ELSE NoMatch

\* float(num) for num made of digits and dots: one dot at most, one digit at least
FloatOf(num) ==
    LET digits == SelectSeq(num, IsDigit)
        dot == PrefixLen(num, DigitSet)
    IN IF Len(num) - Len(digits) > 1 \/ Len(digits) = 0 THEN ValueError
       ELSE Norm(DigitsValue(digits), 0 - (Len(digits) - dot))

\* parse_abbr(s)
parse_abbr(v) ==
    IF ~Truthy(v) THEN Zero
    ELSE LET m == AbbrMatch(RemoveCommas(Strip(StrOf(v))))
         IN IF ~m.ok THEN Zero
            ELSE LET num == FloatOf(m.num)
                 IN IF num.t = "raise" THEN num ELSE Norm(num.m, num.e + m.exp)

(***************************************************************************)
(* send_discord_notification.py: find_inactive.  A history entry is a      *)
(* record with a date and, unless the key is missing, a members dict from  *)
(* id to the member's fields; a dict is a function, {} the empty one.      *)
(***************************************************************************)
HasMembersKey(h) == "members" \in DOMAIN h
\* bool(h.get("members")): the key is there and the dict is not empty
HasMembers(h) == "members" \in DOMAIN h /\ DOMAIN h.members # {}

\* h.get("members", {})
MembersOf(h) == IF "members" \in DOMAIN h THEN h.members ELSE <<>>

\* bool(snap.get(mid)): mid is a key of the snapshot and its dict is not empty
HasData(snap, mid) == mid.t = "str" /\ mid.s \in DOMAIN snap /\ DOMAIN snap[mid.s] # {}

\* the loop over NUMERIC_FIELDS from field k on: "changed" at the first field
\* whose parsed values differ, "raise" if a parse raises before that, else "same"
RECURSIVE FieldsLoop(_, _, _)
FieldsLoop(curr_data, prev_data, k) ==
    IF k > Len(NUMERIC_FIELDS) THEN "same"
    ELSE LET f == NUMERIC_FIELDS[k]
             c == parse_abbr(Get(curr_data, f, PyStr(<<"0">>)))
             q == parse_abbr(Get(prev_data, f, PyStr(<<"0">>)))
         IN IF c.t = "raise" \/ q.t = "raise" THEN "raise"
            ELSE IF c # q THEN "changed"
            ELSE FieldsLoop(curr_data, prev_data, k + 1)

\* for i in range(len(valid) - 1, 0, -1), from index i down (valid[i] of the
\* code is valid[i + 1] here): the days counted, or -1 when parse_abbr raises
RECURSIVE DaysLoop(_, _, _)
DaysLoop(valid, mid, i) ==
    IF i < 1 THEN 0
    ELSE LET curr_snap == MembersOf(valid[i + 1])
             prev_snap == MembersOf(valid[i])
         IN IF ~HasData(curr_snap, mid) \/ ~HasData(prev_snap, mid) THEN 0
            ELSE LET same == FieldsLoop(curr_snap[mid.s], prev_snap[mid.s], 1)
                 IN IF same = "raise" THEN -1
                    ELSE IF same = "changed" THEN 0
                    ELSE LET more == DaysLoop(valid, mid, i - 1)
                         IN IF more < 0 THEN -1 ELSE 1 + more

\* list.sort(key=days, reverse=True): stable, the larger day counts first
RECURSIVE InsertByDays(_, _)
InsertByDays(q, x) ==
    IF Len(q) = 0 THEN <<x>>
    ELSE IF x.days > Head(q).days THEN <<x>> \o q
    ELSE <<Head(q)>> \o InsertByDays(Tail(q), x)

Unsorted(q) == q
RECURSIVE SortByDays(_)
SortByDays(q) ==
    IF Len(q) = 0 THEN <<>>
    ELSE InsertByDays(SortByDays(SubSeq(q, 1, Len(q) - 1)), q[Len(q)])

TakeAll(q, n) == q
\* q[:n]
Take(q, n) == SubSeq(q, 1, IF Len(q) < n THEN Len(q) ELSE n)

KeepAllEntries(hist) == hist
\* valid = [h for h in history if h.get("members")]
ValidEntries(hist) == SelectSeq(hist, HasMembers)

KeepLatest(valid) == valid
\* valid = valid[:-1]
DropLatest(valid) == SubSeq(valid, 1, Len(valid) - 1)

\* the loop over members from member k on: the list appended to, or ValueError
RECURSIVE InactiveLoop(_, _, _, _)
InactiveLoop(mems, valid, k, acc) ==
    IF k > Len(mems) THEN [t |-> "ok", list |-> acc]
    ELSE LET m == mems[k]
             mid == Get(m, "id", PyNone)
         IN IF ~Truthy(mid) THEN InactiveLoop(mems, valid, k + 1, acc)
            ELSE LET days_inactive == DaysLoop(valid, mid, Len(valid) - 1)
                 IN IF days_inactive < 0 THEN ValueError
                    ELSE IF days_inactive > 0
                         THEN InactiveLoop(mems, valid, k + 1,
                                  Append(acc, [name |-> m.name, days |-> days_inactive]))
                    ELSE InactiveLoop(mems, valid, k + 1, acc)

\* find_inactive(members, history)
find_inactive(mems, hist) ==
    LET valid == ValidEntries(hist)
    IN IF Len(valid) < 3 THEN [t |-> "ok", list |-> <<>>]
       ELSE LET found == InactiveLoop(mems, DropLatest(valid), 1, <<>>)
            IN IF found.t = "raise" THEN found
               ELSE [t |-> "ok", list |-> Take(SortByDays(found.list), 5)]

(***************************************************************************)
(* find_inactive on bounded inputs: daily snapshots of two members, X with *)
(* a power written in three ways of which two parse to the same number, Y  *)
(* with one of two helps counts; a snapshot may lack X, be empty (a failed *)
(* scrape) or have no members key.                                         *)
(***************************************************************************)
MaxHist == 4

\* strftime("%Y-%m-%d") of the n-th day of January 2026
DateStr(n) ==
    <<"2", "0", "2", "6", "-", "0", "1", "-">>
        \o (IF n < 10 THEN <<"0">> ELSE <<>>) \o NatStr(n)

IdX == <<"1">>
IdY == <<"2">>
NameX == PyStr(<<"X">>)
NameY == PyStr(<<"Y">>)

XData(p) == [name |-> NameX, power |-> PyStr(p)]
YData(h) == [name |-> NameY, helps |-> PyStr(h)]

\* the member maps of a snapshot: X and Y, Y alone, or nobody
SnapMaps ==
    LET h200 == <<"2", "0", "0">>
        h250 == <<"2", "5", "0">>
    IN {(IdX :> XData(<<"1", "K">>)) @@ (IdY :> YData(h200)),
        (IdX :> XData(<<"1", "0", "0", "0">>)) @@ (IdY :> YData(h200)),
        (IdX :> XData(<<"1", "0", "0", "0">>)) @@ (IdY :> YData(h250)),
        (IdX :> XData(<<"2", "K">>)) @@ (IdY :> YData(h250)),
        (IdY :> YData(h200)),
        <<>>}

\* the entries a history can hold for day n
Entries(n) == {[date |-> DateStr(n), members |-> mp] : mp \in SnapMaps}
                \cup {[date |-> DateStr(n)]}

\* the histories of l consecutive days
RECURSIVE HistoriesOfLen(_)
HistoriesOfLen(l) ==
    IF l = 0 THEN {<<>>}
    ELSE {Append(h, e) : h \in HistoriesOfLen(l - 1), e \in Entries(l)}

\* latest.json members: X and Y, or with a record that has no id between them
MemberLists ==
    LET mX == [id |-> PyStr(IdX), name |-> NameX, power |-> PyStr(<<"1", "K">>)]
        mY == [id |-> PyStr(IdY), name |-> NameY, helps |-> PyStr(<<"2", "5", "0">>)]
        mZ == [name |-> PyStr(<<"Z">>)]
    IN {<<mX, mY>>, <<mY, mZ, mX>>}

InactiveInit ==
    /\ PipelineIdle
    /\ DetectIdle
    /\ members \in MemberLists
    /\ history \in UNION {HistoriesOfLen(l) : l \in 0..MaxHist}
    /\ inactive = PyNone
    /\ movers = PyNone
    /\ snap7 = PyNone
    /\ CallIdle

FindInactive ==
    /\ inactive = PyNone
    /\ inactive' = find_inactive(members, history)
    /\ UNCHANGED <<members, history, movers, snap7>>
    /\ UNCHANGED callVars
    /\ UNCHANGED detectVars
    /\ UNCHANGED pipelineVars

InactiveNext == FindInactive

SpecInactive == InactiveInit /\ [][InactiveNext]_vars

(***************************************************************************)
(* Properties of find_inactive.                                            *)
(***************************************************************************)
\* the snapshots of the history with a non-empty member map
NonEmptySnapshots ==
    {i \in DOMAIN history : "members" \in DOMAIN history[i] /\ history[i].members # <<>>}

\* member id is in snapshots i and j with the same parsed value in every tracked field
SameTracked(id, i, j) ==
    /\ id \in DOMAIN history[i].members
    /\ id \in DOMAIN history[j].members
    /\ \A k \in 1..Len(NUMERIC_FIELDS) :
          parse_abbr(Get(history[i].members[id], NUMERIC_FIELDS[k], PyStr(<<"0">>)))
            = parse_abbr(Get(history[j].members[id], NUMERIC_FIELDS[k], PyStr(<<"0">>)))

\* exactly 3 snapshots, all valid; X the same in all 3; Y changed from 2 to 3
ThreeSnapshotsCase ==
    /\ Len(history) = 3
    /\ NonEmptySnapshots = {1, 2, 3}
    /\ SameTracked(IdX, 1, 2)
    /\ SameTracked(IdX, 2, 3)
    /\ IdY \in DOMAIN history[2].members
    /\ IdY \in DOMAIN history[3].members
    /\ ~SameTracked(IdY, 2, 3)

\* C8: with exactly 3 valid snapshots, X identical in all 3 and Y changing between
\* snapshots 2 and 3, find_inactive reports X with days = 2 and does not report Y
C8_ThreeSnapshotsTwoDays ==
    (inactive # PyNone /\ ThreeSnapshotsCase)
        => /\ inactive.t = "ok"
           /\ \E k \in DOMAIN inactive.list : inactive.list[k] = [name |-> NameX, days |-> 2]
           /\ \A k \in DOMAIN inactive.list : inactive.list[k].name # NameY

\* find_inactive has run on the three snapshots of C8
C8_Witness == inactive # PyNone /\ ThreeSnapshotsCase

\* C9: with fewer than 3 snapshots having a non-empty member map, find_inactive
\* returns the empty list, whatever the member list
C9_FewerThanThreeValidIsEmpty ==
    (inactive # PyNone /\ Cardinality(NonEmptySnapshots) < 3)
        => inactive = [t |-> "ok", list |-> <<>>]

\* four entries of which two are valid, adjacent, and hold X unchanged
C9_Witness ==
    /\ inactive # PyNone
    /\ Len(history) = 4
    /\ NonEmptySnapshots = {2, 3}
    /\ SameTracked(IdX, 2, 3)
    /\ inactive.list = <<>>

(***************************************************************************)
(* send_discord_notification.py: get_snapshot_days_ago, find_power_movers. *)
(***************************************************************************)
\* a <= b on str
StrLessEq(a, b) == a = b \/ StrLess(a, b)

\* the loop of get_snapshot_days_ago from entry k on: the last entry dated on
\* or before target, best when there is none
RECURSIVE BestLoop(_, _, _, _)
BestLoop(hist, target, k, best) ==
    IF k > Len(hist) THEN best
    ELSE BestLoop(hist, target, k + 1,
                  IF StrLessEq(hist[k].date, target) THEN hist[k] ELSE best)

NoFallback(hist) == PyNone
\* if not best: best = history[0]
FallbackEntry(hist) == hist[1]

\* get_snapshot_days_ago(history, days), now being day number now
get_snapshot_days_ago(hist, days, now) ==
    IF Len(hist) = 0 THEN PyNone
    ELSE LET best == BestLoop(hist, DateStr(now - days), 1, PyNone)
         IN IF "date" \notin DOMAIN best THEN FallbackEntry(hist) ELSE best

\* the loop over members from member k on: the deltas appended to, or ValueError
RECURSIVE DeltasLoop(_, _, _, _)
DeltasLoop(mems, snap, k, acc) ==
    IF k > Len(mems) THEN [t |-> "ok", list |-> acc]
    ELSE LET m == mems[k]
             mid == Get(m, "id", PyNone)
         IN IF ~Truthy(mid) \/ ~HasData(snap, mid) THEN DeltasLoop(mems, snap, k + 1, acc)
            ELSE LET curr == parse_abbr(Get(m, "power", PyStr(<<"0">>)))
                     prev == parse_abbr(Get(snap[mid.s], "power", PyStr(<<"0">>)))
                 IN IF curr.t = "raise" \/ prev.t = "raise" THEN ValueError
                    ELSE DeltasLoop(mems, snap, k + 1,
                             Append(acc, [name |-> m.name, delta |-> NumSub(curr, prev)]))

\* list.sort(key=delta), stable; reverse: the larger deltas first
RECURSIVE InsertByDelta(_, _, _)
InsertByDelta(q, x, reverse) ==
    IF Len(q) = 0 THEN <<x>>
    ELSE IF (IF reverse THEN NumLess(Head(q).delta, x.delta)
             ELSE NumLess(x.delta, Head(q).delta))
         THEN <<x>> \o q
    ELSE <<Head(q)>> \o InsertByDelta(Tail(q), x, reverse)

RECURSIVE SortByDelta(_, _)
SortByDelta(q, reverse) ==
    IF Len(q) = 0 THEN <<>>
    ELSE InsertByDelta(SortByDelta(SubSeq(q, 1, Len(q) - 1), reverse), q[Len(q)], reverse)

\* find_power_movers(members, history) given the snapshot the lookup returned
find_power_movers(mems, snap) ==
    LET Empty == [t |-> "ok", gainers |-> <<>>, losers |-> <<>>]
    IN IF "date" \notin DOMAIN snap THEN Empty
       ELSE IF ~HasMembers(snap) THEN Empty
       ELSE LET found == DeltasLoop(mems, snap.members, 1, <<>>)
            IN IF found.t = "raise" THEN found
               ELSE LET deltas == SortByDelta(found.list, TRUE)
                        Gain(d) == d.delta.m > 0
                        Loss(d) == d.delta.m < 0
                    IN [t |-> "ok",
                        gainers |-> SelectSeq(Take(deltas, 5), Gain),
                        losers |-> Take(SortByDelta(SelectSeq(deltas, Loss), FALSE), 5)]

(***************************************************************************)
(* find_power_movers on bounded inputs: the report runs 8 or 9 days into   *)
(* the month, the history holds snapshots of some of the first days.       *)
(***************************************************************************)
\* find_power_movers looks 7 days back
AnchorDays == 7

MoverMaps ==
    LET P(name, p) == [name |-> name, power |-> PyStr(p)]
    IN {(IdX :> P(NameX, <<"9", "0", "M">>)) @@ (IdY :> P(NameY, <<"5", "0", "M">>)),
        (IdX :> P(NameX, <<"1", "0", "0", "M">>)),
        <<>>}

MoverEntries(n) == {[date |-> DateStr(n), members |-> mp] : mp \in MoverMaps}
                      \cup {[date |-> DateStr(n)]}

\* the histories, oldest entry first, with snapshots of some of the days 1..n
RECURSIVE MoverHistories(_)
MoverHistories(n) ==
    IF n = 0 THEN {<<>>}
    ELSE LET older == MoverHistories(n - 1)
         IN older \cup {Append(h, e) : h \in older, e \in MoverEntries(n)}

MoverLists ==
    LET mX == [id |-> PyStr(IdX), name |-> NameX, power |-> PyStr(<<"1", "0", "0", "M">>)]
        mY == [id |-> PyStr(IdY), name |-> NameY, power |-> PyStr(<<"4", "0", "M">>)]
        mZ == [id |-> PyStr(<<"3">>), name |-> PyStr(<<"Z">>), power |-> PyStr(<<"1", "K">>)]
    IN {<<mX, mY>>, <<mZ, mY, mX>>}

MoversInit ==
    /\ FilesIdle
    /\ AlertIdle
    /\ DetectIdle
    /\ today \in {AnchorDays + 1, AnchorDays + 2}
    /\ members \in MoverLists
    /\ history \in MoverHistories(MaxHist)
    /\ inactive = PyNone
    /\ movers = PyNone
    /\ snap7 = PyNone
    /\ CallIdle

FindPowerMovers ==
    /\ movers = PyNone
    /\ \E snap \in {get_snapshot_days_ago(history, AnchorDays, today)} :
          /\ snap7' = snap
          /\ movers' = find_power_movers(members, snap)
    /\ UNCHANGED <<members, history, inactive>>
    /\ UNCHANGED callVars
    /\ UNCHANGED detectVars
    /\ UNCHANGED pipelineVars

MoversNext == FindPowerMovers

SpecMovers == MoversInit /\ [][MoversNext]_vars

(***************************************************************************)
(* Properties of find_power_movers.                                        *)
(***************************************************************************)
\* the day of the month of a date
DayOf(d) == DigitsValue(SubSeq(d, Len(d) - 1, Len(d)))

\* the entries of the history dated on or before 7 days before today
OnOrBefore == {i \in DOMAIN history : DayOf(history[i].date) <= today - AnchorDays}

NoMovers == [t |-> "ok", gainers |-> <<>>, losers |-> <<>>]

\* C10 as stated: without a snapshot dated on or before 7 days ago the lookup
\* returns none and find_power_movers returns ([], []), as it does when the
\* anchor has no member data
C10_NoAnchorNoMovers ==
    movers # PyNone
        => /\ OnOrBefore = {} => (snap7 = PyNone /\ movers = NoMovers)
           /\ (snap7 # PyNone /\ ~HasMembers(snap7)) => movers = NoMovers

\* C10: the lookup returns none only for an empty history; otherwise the anchor
\* is the latest snapshot dated on or before 7 days ago or, without one, the
\* oldest snapshot; find_power_movers returns ([], []) for an empty history and
\* for an anchor without member data
C10_AnchorFallsBackToOldest ==
    movers # PyNone
        => /\ history = <<>> => (snap7 = PyNone /\ movers = NoMovers)
           /\ history # <<>> =>
                /\ snap7 = (IF OnOrBefore = {} THEN history[1]
                            ELSE history[CHOOSE i \in OnOrBefore :
                                            \A j \in OnOrBefore : j <= i])
                /\ ~HasMembers(snap7) => movers = NoMovers

\* no snapshot is 7 days old: the oldest one is the anchor and X is a gainer
C10_Witness ==
    /\ movers # PyNone
    /\ history # <<>>
    /\ OnOrBefore = {}
    /\ snap7 = history[1]
    /\ movers.gainers # <<>>

(***************************************************************************)
(* find_power_movers on longer member lists: every member but the first    *)
(* was at 50M in the anchor snapshot and is now below or above it; the     *)
(* first member also may have kept its power or be new since the anchor.   *)
(***************************************************************************)
MaxMovers == 6

PlayerName(i) == PyStr(<<"P">> \o NatStr(i))

\* a record of latest.json members
CurrentMember(i, power) ==
    [id |-> PyStr(NatStr(i)), name |-> PlayerName(i), power |-> PyStr(power)]

PowerChoices == {<<"3", "0", "M">>, <<"4", "0", "M">>, <<"6", "0", "M">>, <<"7", "0", "M">>}

\* what the first member did since the anchor: its current power
FirstChoices ==
    [same |-> <<"5", "0", "M">>, new |-> <<"9", "0", "M">>,
     gain |-> <<"6", "0", "M">>, loss |-> <<"4", "0", "M">>]

\* the anchor snapshot: the members 1..MaxMovers at 50M, without the first if new
AnchorEntry(first) ==
    [date |-> DateStr(1),
     members |-> [k \in {NatStr(i) : i \in (IF first = "new" THEN 2 ELSE 1)..MaxMovers} |->
                    [name |-> PlayerName(DigitsValue(k)), power |-> PyStr(<<"5", "0", "M">>)]]]

TopMoversInit ==
    /\ FilesIdle
    /\ AlertIdle
    /\ DetectIdle
    /\ today = AnchorDays + 1
    /\ \E first \in DOMAIN FirstChoices, pw \in [2..MaxMovers -> PowerChoices] :
          /\ members = [i \in 1..MaxMovers |->
                          CurrentMember(i, IF i = 1 THEN FirstChoices[first] ELSE pw[i])]
          /\ history = <<AnchorEntry(first)>>
    /\ inactive = PyNone
    /\ movers = PyNone
    /\ snap7 = PyNone
    /\ CallIdle

SpecTopMovers == TopMoversInit /\ [][MoversNext]_vars

\* the integer a parsed number stands for
IntValue(num) == num.m * Pow10(num.e)

\* the members of the current list that the anchor snapshot holds
InAnchor == {k \in DOMAIN members : members[k].id.s \in DOMAIN snap7.members}

\* current power minus anchor power of member k
PowerDelta(k) ==
    IntValue(parse_abbr(members[k].power))
        - IntValue(parse_abbr(snap7.members[members[k].id.s].power))

\* list q holds n members of set S, each once and with its delta, and the
\* members of S left out come after the last one when ordered by Before
TopOf(q, S, n, Before(_, _)) ==
    /\ Len(q) = n
    /\ \A i \in DOMAIN q :
          \E k \in S : q[i].name = members[k].name /\ IntValue(q[i].delta) = PowerDelta(k)
    /\ \A i, j \in DOMAIN q : i < j => q[i].name # q[j].name
    /\ \A i, j \in DOMAIN q : i < j => ~Before(IntValue(q[j].delta), IntValue(q[i].delta))
    /\ \A k \in S : (\A i \in DOMAIN q : q[i].name # members[k].name)
                        => \A i \in DOMAIN q : ~Before(PowerDelta(k), IntValue(q[i].delta))

AtMost5(n) == IF n > 5 THEN 5 ELSE n

\* C11: a delta is computed only for the current members the anchor holds; the
\* gainers are the (up to 5) largest positive deltas, largest first, the losers
\* the (up to 5) most negative ones, most negative first; a member with delta 0
\* or not in the anchor is in neither list
C11_TopGainersAndLosers ==
    (movers # PyNone /\ snap7 # PyNone /\ HasMembers(snap7))
        => LET Pos == {k \in InAnchor : PowerDelta(k) > 0}
               Neg == {k \in InAnchor : PowerDelta(k) < 0}
           IN /\ movers.t = "ok"
              /\ TopOf(movers.gainers, Pos, AtMost5(Cardinality(Pos)), LAMBDA a, b : a > b)
              /\ TopOf(movers.losers, Neg, AtMost5(Cardinality(Neg)), LAMBDA a, b : a < b)

\* six members gained, not all the same: five are listed
C11_Witness ==
    /\ movers # PyNone
    /\ Cardinality({k \in InAnchor : PowerDelta(k) > 0}) > 5
    /\ Len(movers.gainers) = 5
    /\ movers.gainers[1].delta # movers.gainers[5].delta
    /\ movers.losers = <<>>

(***************************************************************************)
(* send_discord_notification.py: find_lowest_helps.                        *)
(***************************************************************************)
\* the loop over history from snapshot k on, for the first snapshot holding
\* the member: parse_abbr of its helps there, None when no snapshot holds it
RECURSIVE FirstHelpsLoop(_, _, _)
FirstHelpsLoop(hist, mid, k) ==
    IF k > Len(hist) THEN PyNone
    ELSE IF HasData(MembersOf(hist[k]), mid)
         THEN parse_abbr(Get(MembersOf(hist[k])[mid.s], "helps", PyStr(<<"0">>)))
    ELSE FirstHelpsLoop(hist, mid, k + 1)

\* the same loop keeping the last snapshot that holds the member
RECURSIVE LastHelpsLoop(_, _, _)
LastHelpsLoop(hist, mid, k) ==
    IF k < 1 THEN PyNone
    ELSE IF HasData(MembersOf(hist[k]), mid)
         THEN parse_abbr(Get(MembersOf(hist[k])[mid.s], "helps", PyStr(<<"0">>)))
    ELSE LastHelpsLoop(hist, mid, k - 1)

LastHelps(hist, mid) == LastHelpsLoop(hist, mid, Len(hist))
\* for snap in history: ... break
FirstHelps(hist, mid) == FirstHelpsLoop(hist, mid, 1)

\* the loop over members from member k on: the results appended to, or ValueError
RECURSIVE HelpsLoop(_, _, _, _)
HelpsLoop(mems, hist, k, acc) ==
    IF k > Len(mems) THEN [t |-> "ok", list |-> acc]
    ELSE LET m == mems[k]
             mid == Get(m, "id", PyNone)
         IN IF ~Truthy(mid) THEN HelpsLoop(mems, hist, k + 1, acc)
            ELSE LET first_helps == FirstHelps(hist, mid)
                     curr == parse_abbr(Get(m, "helps", PyStr(<<"0">>)))
                 IN IF first_helps.t = "raise" THEN ValueError
                    ELSE IF first_helps.t = "none" THEN HelpsLoop(mems, hist, k + 1, acc)
                    ELSE IF curr.t = "raise" THEN ValueError
                    ELSE HelpsLoop(mems, hist, k + 1,
                             Append(acc, [name |-> m.name,
                                          gained |-> NumSub(curr, first_helps)]))

\* results.sort(key=gained): stable, the smaller gains first
RECURSIVE InsertByGained(_, _)
InsertByGained(q, x) ==
    IF Len(q) = 0 THEN <<x>>
    ELSE IF NumLess(x.gained, Head(q).gained) THEN <<x>> \o q
    ELSE <<Head(q)>> \o InsertByGained(Tail(q), x)

RECURSIVE SortByGained(_)
SortByGained(q) ==
    IF Len(q) = 0 THEN <<>>
    ELSE InsertByGained(SortByGained(SubSeq(q, 1, Len(q) - 1)), q[Len(q)])

\* find_lowest_helps(members, history)
find_lowest_helps(mems, hist) ==
    IF Len(hist) = 0 THEN [t |-> "ok", list |-> <<>>]
    ELSE LET found == HelpsLoop(mems, hist, 1, <<>>)
         IN IF found.t = "raise" THEN found
            ELSE [t |-> "ok", list |-> Take(SortByGained(found.list), 5)]

(***************************************************************************)
(* find_lowest_helps on bounded inputs: a history of three days, the first *)
(* without member data; a member is in both later snapshots (100 helps,    *)
(* then 200), only in the last (200 helps), or in none.                    *)
(***************************************************************************)
MaxHelpers == 6

HelpsChoices == {<<"1", "5", "0">>, <<"3", "0", "0">>, <<"1", "K">>}

Appearances == {"both", "last", "none"}

\* the history in which member i appears as app[i] says
HelpsHistory(app) ==
    LET Ids(S) == {NatStr(i) : i \in {j \in DOMAIN app : app[j] \in S}}
        Snap(S, helps) ==
            [k \in Ids(S) |-> [name |-> PlayerName(DigitsValue(k)), helps |-> PyStr(helps)]]
    IN <<[date |-> DateStr(1)],
         [date |-> DateStr(2), members |-> Snap({"both"}, <<"1", "0", "0">>)],
         [date |-> DateStr(3), members |-> Snap({"both", "last"}, <<"2", "0", "0">>)]>>

HelperMember(i, helps) ==
    [id |-> PyStr(NatStr(i)), name |-> PlayerName(i), helps |-> PyStr(helps)]

\* the first two members appear in any way, the others in both snapshots
HelpsInit ==
    /\ PipelineIdle
    /\ DetectIdle
    /\ ReportIdle
    /\ \E early \in [1..2 -> Appearances], helps \in [1..MaxHelpers -> HelpsChoices] :
          LET app == [i \in 1..MaxHelpers |-> IF i <= 2 THEN early[i] ELSE "both"]
          IN args = [members |-> [i \in 1..MaxHelpers |-> HelperMember(i, helps[i])],
                     history |-> HelpsHistory(app)]
    /\ ret = PyNone

FindLowestHelps ==
    /\ ret = PyNone
    /\ ret' = find_lowest_helps(args.members, args.history)
    /\ UNCHANGED args
    /\ UNCHANGED detectVars
    /\ UNCHANGED reportVars
    /\ UNCHANGED pipelineVars

HelpsNext == FindLowestHelps

SpecHelps == HelpsInit /\ [][HelpsNext]_vars

\* the snapshots of the history that hold member k of the list
SnapshotsWith(k) ==
    {i \in DOMAIN args.history :
        /\ "members" \in DOMAIN args.history[i]
        /\ args.members[k].id.s \in DOMAIN args.history[i].members}

\* the members of the list that some snapshot holds
EverSeen == {k \in DOMAIN args.members : SnapshotsWith(k) # {}}

\* current helps of member k minus its helps in the snapshot of the earliest date
HelpsGained(k) ==
    LET first == CHOOSE i \in SnapshotsWith(k) :
                    \A j \in SnapshotsWith(k) :
                        DayOf(args.history[i].date) <= DayOf(args.history[j].date)
    IN IntValue(parse_abbr(args.members[k].helps))
         - IntValue(parse_abbr(args.history[first].members[args.members[k].id.s].helps))

\* C12: the baseline of a member is its helps in the earliest snapshot holding
\* it, gained is current helps minus baseline, a member no snapshot holds is left
\* out, and the result is the (up to 5) lowest gains in ascending order
C12_LowestHelpsSinceFirstSeen ==
    ret # PyNone
        => /\ ret.t = "ok"
           /\ Len(ret.list) = AtMost5(Cardinality(EverSeen))
           /\ \A i \in DOMAIN ret.list :
                 \E k \in EverSeen : /\ ret.list[i].name = args.members[k].name
                                     /\ IntValue(ret.list[i].gained) = HelpsGained(k)
           /\ \A i, j \in DOMAIN ret.list :
                 i < j => /\ ret.list[i].name # ret.list[j].name
                          /\ IntValue(ret.list[i].gained) <= IntValue(ret.list[j].gained)
           /\ \A k \in EverSeen :
                 (\A i \in DOMAIN ret.list : ret.list[i].name # args.members[k].name)
                    => \A i \in DOMAIN ret.list : IntValue(ret.list[i].gained) <= HelpsGained(k)

\* six members were seen, one of them only in the last snapshot: five are listed
C12_Witness ==
    /\ ret # PyNone
    /\ Cardinality(EverSeen) > 5
    /\ \E k \in EverSeen : Cardinality(SnapshotsWith(k)) = 1
    /\ Len(ret.list) = 5
    /\ ret.list[1].gained # ret.list[5].gained

(***************************************************************************)
(* db.py: _parse_abbr, and both parsers on bounded inputs.                 *)
(***************************************************************************)
IndexError == [t |-> "raise", exc |-> "IndexError"]

\* float(s) for a str: surrounding whitespace is accepted, then digits with one
\* dot at most (signs, exponents, inf and nan are not among the inputs)
PyFloat(s) ==
    LET body == Strip(s)
    IN IF \E i \in DOMAIN body : body[i] \notin DigitSet \cup {"."} THEN ValueError
       ELSE FloatOf(body)

\* int(x) for a float x >= 0
IntTrunc(num) == IF num.e >= 0 THEN num ELSE Norm(num.m \div Pow10(0 - num.e), 0)

\* _parse_abbr(s) of db.py
db_parse_abbr(v) ==
    IF ~Truthy(v) THEN Zero
    ELSE LET s == RemoveCommas(Strip(StrOf(v)))
         IN IF Len(s) = 0 THEN IndexError
            ELSE IF s[Len(s)] \in DOMAIN SuffixExp
                 THEN LET num == PyFloat(SubSeq(s, 1, Len(s) - 1))
                      IN IF num.t = "raise" THEN Zero
                         ELSE IntTrunc(Norm(num.m, num.e + SuffixExp[s[Len(s)]]))
            ELSE LET num == PyFloat(s)
                 IN IF num.t = "raise" THEN Zero ELSE IntTrunc(num)

\* the longest text given to the parsers
MaxText == 3

TextAlphabet == {"1", ".", "K", " ", ",", "x"}

Texts == UNION {[1..n -> TextAlphabet] : n \in 0..MaxText}

ParseInit ==
    /\ PipelineIdle
    /\ DetectIdle
    /\ ReportIdle
    /\ args \in {[s |-> PyNone]} \cup {[s |-> PyStr(x)] : x \in Texts}
    /\ ret = PyNone

\* the two parsers are given the same value
ParseAbbr ==
    /\ ret = PyNone
    /\ ret' = [t |-> "ok", sdn |-> parse_abbr(args.s), db |-> db_parse_abbr(args.s)]
    /\ UNCHANGED args
    /\ UNCHANGED detectVars
    /\ UNCHANGED reportVars
    /\ UNCHANGED pipelineVars

ParseNext == ParseAbbr

SpecParse == ParseInit /\ [][ParseNext]_vars

\* text x, commas and surrounding whitespace apart, is digits with at most one
\* dot and at least one digit, then possibly whitespace and one suffix letter
WellFormed(x) ==
    \E n \in 1..Len(x), w \in 0..Len(x), k \in 0..1 :
        LET s == RemoveCommas(Strip(x))
        IN /\ n + w + k = Len(s)
           /\ \A i \in 1..n : s[i] \in DigitSet \cup {"."}
           /\ Cardinality({i \in 1..n : s[i] = "."}) <= 1
           /\ \E i \in 1..n : s[i] \in DigitSet
           /\ \A i \in (n + 1)..(n + w) : s[i] \in {" ", "\t", "\n"}
           /\ k = 1 => s[Len(s)] \in {"K", "M", "B", "T", "Q", "k", "m", "b", "t", "q"}

\* the value parsed is None, empty, whitespace only or not a well-formed number
NotANumber == args.s = PyNone \/ ~WellFormed(args.s.s)

\* C13: for None, the empty string, whitespace and every text that is not a
\* well-formed number with an optional K/M/B/T/Q suffix, parse_abbr and
\* _parse_abbr return 0 and do not raise
C13_NotANumberParsesToZero ==
    (ret # PyNone /\ NotANumber) => (ret.sdn = Zero /\ ret.db = Zero)

\* both parsers were given a text that is not a number, and one of them raised
C13_Witness ==
    /\ ret # PyNone
    /\ NotANumber
    /\ ret.sdn.t = "raise" \/ ret.db.t = "raise"

(***************************************************************************)
(* detect_changes on malformed records: a level that is not a number or is *)
(* empty, records without name, level or power.                            *)
(***************************************************************************)
MalformedPrevRecs ==
    {[name |-> PyStr(<<"A">>), level |-> PyStr(<<"x">>), power |-> PyInt(80)],
     [level |-> PyStr(<<>>)],
     [name |-> PyStr(<<"A">>), power |-> PyInt(80)]}

MalformedCurrRecs ==
    {[name |-> PyStr(<<"B">>), level |-> PyStr(<<"4", "0">>), power |-> PyInt(85)],
     [name |-> PyStr(<<"B">>), level |-> PyStr(<<"4", ".", "5">>), power |-> PyInt(85)],
     [power |-> PyInt(85)]}

MalformedInit ==
    /\ PipelineIdle
    /\ ReportIdle
    /\ CallIdle
    /\ prev_members \in DictsOver(MalformedPrevRecs)
    /\ curr_members \in DictsOver(MalformedCurrRecs)
    /\ changes = PyNone

SpecMalformed == MalformedInit /\ [][DetectNext]_vars

\* the level of a record, 0 when it is missing, empty or not a number
LevelOrZero(m) ==
    IF "level" \notin DOMAIN m THEN 0
    ELSE IF m.level.t = "int" THEN m.level.v
    ELSE IF m.level.t = "str" /\ AllDigits(Strip(m.level.s)) THEN DigitsValue(Strip(m.level.s))
    ELSE 0

\* C14: detect_changes does not raise; a level that is missing, empty or not a
\* number counts as 0, so the level-ups are the common keys whose level so read
\* rose; a joined or left record without name or power gets the key and "0"
C14_MalformedRecordsNeverRaise ==
    changes # PyNone
        => /\ changes.t = "ok"
           /\ Len(changes.level_ups)
                = Cardinality({k \in DOMAIN prev_members \cap DOMAIN curr_members :
                                 LevelOrZero(curr_members[k]) > LevelOrZero(prev_members[k])})
           /\ \A i \in DOMAIN changes.joined :
                 \E k \in DOMAIN curr_members \ DOMAIN prev_members :
                    /\ changes.joined[i].name = Get(curr_members[k], "name", PyStr(k))
                    /\ changes.joined[i].power = Get(curr_members[k], "power", PyStr(<<"0">>))

\* a key is in both snapshots and one of its two levels is not a number
C14_Witness ==
    /\ changes # PyNone
    /\ \E k \in DOMAIN prev_members \cap DOMAIN curr_members :
          \/ LevelOf(prev_members[k]).t = "raise"
          \/ LevelOf(curr_members[k]).t = "raise"

(***************************************************************************)
(* send_discord_notification.py: format_abbr, and the round trip through   *)
(* parse_abbr.  An int n is kept as the decimal m * 10^e like a float.     *)
(***************************************************************************)
\* the number of decimal digits of m > 0
NumDigits(m) == Len(NatStr(m))

\* n >= 10^k for n > 0
AtLeastPow10(n, k) == NumDigits(n.m) + n.e > k

\* the position of the first threshold of [(1e15, "Q"), ..., (1e3, "K")] that
\* n reaches, 0 when n < 1000
Thresholds == <<15, 12, 9, 6, 3>>

ThresholdOf(n) ==
    IF \E i \in 1..5 : AtLeastPow10(n, Thresholds[i])
    THEN Thresholds[CHOOSE i \in 1..5 : /\ AtLeastPow10(n, Thresholds[i])
                                         /\ \A j \in 1..(i - 1) : ~AtLeastPow10(n, Thresholds[j])]
    ELSE 0

SuffixAlwaysK(k) == <<"K">>
\* suf of the threshold 10^k
SuffixLetter(k) ==
    CASE k = 15 -> <<"Q">> [] k = 12 -> <<"T">> [] k = 9 -> <<"B">>
      [] k = 6 -> <<"M">> [] k = 3 -> <<"K">> [] OTHER -> <<>>

\* the hundredths f"{val:.2f}" prints for val = m * 10^x: the nearest ones;
\* when the decimal lies halfway the double nearest to it is on either side,
\* and up says on which
Hundredths(m, x, up) ==
    IF x >= -2 THEN m * Pow10(x + 2)
    ELSE LET d == Pow10(0 - x - 2)
             q == m \div d
             r == m % d
         IN IF 2 * r > d \/ (2 * r = d /\ up) THEN q + 1 ELSE q

\* s.rstrip(c)
RECURSIVE RStripChar(_, _)
RStripChar(s, c) ==
    IF Len(s) > 0 /\ s[Len(s)] = c THEN RStripChar(SubSeq(s, 1, Len(s) - 1), c) ELSE s

\* f"{val:.2f}".rstrip("0").rstrip(".") for val of h hundredths
FormatFixed(h) ==
    LET frac == h % 100
        text == NatStr(h \div 100) \o <<".">>
                    \o <<Digits[(frac \div 10) + 1], Digits[(frac % 10) + 1]>>
    IN RStripChar(RStripChar(text, "0"), ".")

\* format_abbr(n) for an int n >= 0
format_abbr(n, up) ==
    IF n.m = 0 THEN <<"0">>
    ELSE LET k == ThresholdOf(n)
         IN FormatFixed(Hundredths(n.m, n.e - k, up)) \o SuffixLetter(k)

(***************************************************************************)
(* The round trip on bounded inputs: every m * 10^e with m up to           *)
(* MaxMantissa and e up to MaxExp, and the integers next under a power of  *)
(* 1000 where the two decimals round up to 1000.                           *)
(***************************************************************************)
MaxMantissa == 1100
MaxExp == 16

NearThreshold ==
    {Norm(m, e) : m \in {999994, 999995, 999999}, e \in {0, 3, 6, 9}}

RoundTripInputs == {Norm(m, e) : m \in 0..MaxMantissa, e \in 0..MaxExp} \cup NearThreshold

RoundTripInit ==
    /\ PipelineIdle
    /\ DetectIdle
    /\ ReportIdle
    /\ args \in {[n |-> n] : n \in RoundTripInputs}
    /\ ret = PyNone

\* parse_abbr(format_abbr(n))
RoundTrip ==
    /\ ret = PyNone
    /\ \E up \in BOOLEAN :
          \E text \in {format_abbr(args.n, up)} :
              ret' = [t |-> "ok", text |-> text, value |-> parse_abbr(PyStr(text))]
    /\ UNCHANGED args
    /\ UNCHANGED detectVars
    /\ UNCHANGED reportVars
    /\ UNCHANGED pipelineVars

RoundTripNext == RoundTrip

SpecRoundTrip == RoundTripInit /\ [][RoundTripNext]_vars

\* 10^(d-1) <= x < 10^d for x > 0
Magnitude(x) == NumDigits(x.m) + x.e

\* |v - n| <= n / 100 for v, n >= 0: numbers a digit apart or more are not,
\* the others are compared at the smaller of the two exponents
WithinOnePercent(v, n) ==
    IF v.m = 0 \/ n.m = 0 THEN v.m = n.m
    ELSE IF Magnitude(v) - Magnitude(n) \notin {-1, 0, 1} THEN FALSE
    ELSE LET e == IF v.e < n.e THEN v.e ELSE n.e
             vm == v.m * Pow10(v.e - e)
             nm == n.m * Pow10(n.e - e)
             diff == IF vm < nm THEN nm - vm ELSE vm - nm
         IN diff <= nm \div 100

\* C15: for a non-negative integer n, parse_abbr(format_abbr(n)) is a number
\* within 1% of n
C15_RoundTripWithinOnePercent ==
    ret # PyNone => (ret.value.t = "num" /\ WithinOnePercent(ret.value, args.n))

\* a number of four digits came back rounded, with its suffix
C15_Witness ==
    /\ ret # PyNone
    /\ ret.value # args.n
    /\ ret.text[Len(ret.text)] = "K"
    /\ Len(ret.text) = 5

(***************************************************************************)
(* send_discord_notification.py: truncate_field.  The bodies are joined    *)
(* lines, "\n".join(lines), over a letter and the newline; the limit is    *)
(* the parameter of the function (1024 at every call site).                *)
(***************************************************************************)
\* the continuation marker "\n..."
Marker == <<"\n", ".", ".", ".">>

SliceKeepAll(s, stop) == s
\* s[:stop]: a negative stop counts from the end, and both ends are clipped
PySliceTo(s, stop) ==
    LET n == Len(s)
        from_end == IF stop < 0 THEN stop + n ELSE stop
        k == IF from_end < 0 THEN 0 ELSE IF from_end > n THEN n ELSE from_end
    IN SubSeq(s, 1, k)

truncate_field(text, limit) ==
    IF Len(text) <= limit THEN text
    ELSE PySliceTo(text, limit - 4) \o Marker

MaxBody == 7
MaxLimit == 8

BodyAlphabet == {"a", "\n"}

Bodies == UNION {[1..n -> BodyAlphabet] : n \in 0..MaxBody}

TruncateInit ==
    /\ PipelineIdle
    /\ DetectIdle
    /\ ReportIdle
    /\ args \in {[text |-> text, limit |-> limit] : text \in Bodies, limit \in 0..MaxLimit}
    /\ ret = PyNone

TruncateField ==
    /\ ret = PyNone
    /\ ret' = [t |-> "ok", text |-> truncate_field(args.text, args.limit)]
    /\ UNCHANGED args
    /\ UNCHANGED detectVars
    /\ UNCHANGED reportVars
    /\ UNCHANGED pipelineVars

TruncateNext == TruncateField

SpecTruncate == TruncateInit /\ [][TruncateNext]_vars

EndsWithMarker(s) ==
    /\ Len(s) >= Len(Marker)
    /\ SubSeq(s, Len(s) - Len(Marker) + 1, Len(s)) = Marker

\* the call cut the text
Truncated == ret # PyNone /\ Len(args.text) > args.limit

\* C16 as stated: a text within the limit comes back unchanged, and for every
\* limit a longer one comes back no longer than the limit, ending with the
\* marker
C16_TruncatedFitsEveryLimit ==
    ret # PyNone =>
        IF Len(args.text) <= args.limit THEN ret.text = args.text
        ELSE Len(ret.text) <= args.limit /\ EndsWithMarker(ret.text)

\* C16: a text within the limit comes back unchanged; a longer one comes back
\* ending with the marker, and no longer than the limit when the limit has
\* room for the marker (limit >= 4)
C16_TruncatedFitsLimitWithRoomForMarker ==
    ret # PyNone =>
        IF Len(args.text) <= args.limit THEN ret.text = args.text
        ELSE /\ EndsWithMarker(ret.text)
             /\ args.limit >= Len(Marker) => Len(ret.text) <= args.limit

\* a text longer than a limit with room for the marker was cut to the limit
C16_Witness ==
    /\ Truncated
    /\ args.limit > Len(Marker)
    /\ Len(args.text) > args.limit + 1
    /\ Len(ret.text) = args.limit
    /\ EndsWithMarker(ret.text)

\* what the call kept of the text, in front of the marker
Kept == SubSeq(ret.text, 1, Len(ret.text) - Len(Marker))

\* text[1..k] is made of whole lines of text
WholeLines(text, k) ==
    \/ k = 0
    \/ k = Len(text)
    \/ text[k] = "\n"
    \/ text[k + 1] = "\n"

\* C17: when a body is truncated (the limit has room for the marker), what is
\* kept is whole leading lines of the body, as many as fit, and then the
\* marker
C17_TruncationKeepsWholeLines ==
    (Truncated /\ args.limit >= Len(Marker)) =>
        /\ EndsWithMarker(ret.text)
        /\ \E k \in 0..(args.limit - Len(Marker)) :
              /\ Kept = SubSeq(args.text, 1, k)
              /\ WholeLines(args.text, k)
              /\ \A j \in (k + 1)..(args.limit - Len(Marker)) : ~WholeLines(args.text, j)

\* a body of two lines was cut inside its first line
C17_Witness ==
    /\ Truncated
    /\ args.text = <<"a", "a", "a", "\n", "a", "a", "a">>
    /\ args.limit = 6
    /\ ret.text = <<"a", "a">> \o Marker

(***************************************************************************)
(* send_discord_notification.py: the size check of main on the embed       *)
(* build_embed returns.  A text is kept as its length, the only thing the  *)
(* check reads.                                                            *)
(***************************************************************************)
\* the sections of build_embed, in the order it appends them, and len(name)
SectionNames ==
    <<"New Members (7d)", "Members Who Left", "Inactive Alerts",
      "Power Gainers (7d)", "Power Losers (7d)", "Lowest Helps Gained">>

NameLens == <<16, 16, 15, 18, 17, 19>>

\* len of the title f"NCC Daily Report — {today}" and of the footer text
TitleLen == 29
FooterLen == 14

\* the limit truncate_field holds every field value to, and the size limit
FieldLimit == 1024
SizeLimit == 5900

\* len of a field value: a line, several lines, a truncated body; 0 is a
\* section build_embed leaves out
ValueLens == {0, 40, 600, FieldLimit}

\* len of compute_description: two lines of abbreviated totals, without and
\* with the deltas
DescriptionLens == {54, 150}

\* the fields build_embed appends for the value lengths v[1..6]
RECURSIVE FieldsFrom(_, _)
FieldsFrom(v, i) ==
    IF i > Len(v) THEN <<>>
    ELSE (IF v[i] = 0 THEN <<>> ELSE <<[name |-> SectionNames[i], name_len |-> NameLens[i], value_len |-> v[i]]>>)
         \o FieldsFrom(v, i + 1)

Embeds ==
    {[title_len |-> TitleLen, description_len |-> d, footer_len |-> FooterLen,
      fields |-> FieldsFrom(v, 1)] : d \in DescriptionLens, v \in [1..6 -> ValueLens]}

\* for f in embed.get("fields", []): total += len(name) + len(value)
RECURSIVE AddFields(_, _, _)
AddFields(total, fields, i) ==
    IF i > Len(fields) THEN total
    ELSE AddFields(total + fields[i].name_len + fields[i].value_len, fields, i + 1)

KeepEveryField(total, fields) == [total |-> total, fields |-> fields]
\* while total > 5900 and embed.get("fields"): removed = fields.pop(); ...
RECURSIVE TrimLoop(_, _)
TrimLoop(total, fields) ==
    IF total > SizeLimit /\ Len(fields) > 0
    THEN LET removed == fields[Len(fields)]
         IN TrimLoop(total - (removed.name_len + removed.value_len),
                     SubSeq(fields, 1, Len(fields) - 1))
    ELSE [total |-> total, fields |-> fields]

\* the size check: the embed after it, and the total main prints
SizeCheckOf(embed) ==
    LET total == AddFields(embed.title_len + embed.description_len + embed.footer_len,
                           embed.fields, 1)
        trimmed == IF total > SizeLimit THEN TrimLoop(total, embed.fields)
                   ELSE [total |-> total, fields |-> embed.fields]
    IN [t |-> "ok", embed |-> [embed EXCEPT !.fields = trimmed.fields], total |-> trimmed.total]

SizeCheckInit ==
    /\ PipelineIdle
    /\ DetectIdle
    /\ ReportIdle
    /\ args \in {[embed |-> e] : e \in Embeds}
    /\ ret = PyNone

SizeCheck ==
    /\ ret = PyNone
    /\ ret' = SizeCheckOf(args.embed)
    /\ UNCHANGED args
    /\ UNCHANGED detectVars
    /\ UNCHANGED reportVars
    /\ UNCHANGED pipelineVars

SizeCheckNext == SizeCheck

SpecSizeCheck == SizeCheckInit /\ [][SizeCheckNext]_vars

\* the lengths of title, description, footer text and of the names and values
\* of the fields, counted anew
RECURSIVE FieldChars(_)
FieldChars(fields) ==
    IF fields = <<>> THEN 0
    ELSE Head(fields).name_len + Head(fields).value_len + FieldChars(Tail(fields))

EmbedChars(embed) ==
    embed.title_len + embed.description_len + embed.footer_len + FieldChars(embed.fields)

IsPrefix(p, q) == Len(p) <= Len(q) /\ p = SubSeq(q, 1, Len(p))

\* C18: after the size check the lengths of title, description, footer text
\* and of the names and values of the fields left add up to at most 5900, the
\* fields left are a prefix of the fields built, and nothing else changed
C18_SizeCheckBoundsEmbed ==
    ret # PyNone =>
        /\ EmbedChars(ret.embed) <= 5900
        /\ IsPrefix(ret.embed.fields, args.embed.fields)
        /\ ret.embed.title_len = args.embed.title_len
        /\ ret.embed.description_len = args.embed.description_len
        /\ ret.embed.footer_len = args.embed.footer_len

\* an embed over the limit lost its last field and kept the others
C18_Witness ==
    /\ ret # PyNone
    /\ EmbedChars(args.embed) > 5900
    /\ Len(args.embed.fields) = 6
    /\ Len(ret.embed.fields) = 5

(***************************************************************************)
(* db.py: upsert_players on the rows of the two tables, inside the         *)
(* transaction of its connection, as pull_api.save_data calls it.          *)
(***************************************************************************)
\* INSERT INTO players ... ON CONFLICT(player_id) DO UPDATE SET name, ...,
\* last_seen (first_seen is not in the SET list)
UpsertPlayerRow(rows, player_id, m, date) ==
    IF \E r \in rows : r.player_id = player_id
    THEN {IF r.player_id = player_id
          THEN [r EXCEPT !.name = m.name, !.last_seen = date]
          ELSE r : r \in rows}
    ELSE rows \cup {[player_id |-> player_id, name |-> m.name,
                     first_seen |-> date, last_seen |-> date]}

InsertSnapshotRow(rows, player_id, m, date) ==
    rows \cup {[player_id |-> player_id, date |-> date, level |-> m.level]}
\* INSERT INTO daily_snapshots ... ON CONFLICT(player_id, date) DO UPDATE SET
\* every other column
UpsertSnapshotRow(rows, player_id, m, date) ==
    IF \E r \in rows : r.player_id = player_id /\ r.date = date
    THEN {IF r.player_id = player_id /\ r.date = date
          THEN [r EXCEPT !.level = m.level]
          ELSE r : r \in rows}
    ELSE rows \cup {[player_id |-> player_id, date |-> date, level |-> m.level]}

\* the loop of upsert_players on what the connection sees: int(m["id"]) raises
\* out of the loop, with the writes made so far left in the open transaction
RECURSIVE UpsertRows(_, _, _)
UpsertRows(conn, mapped_players, date) ==
    IF Len(mapped_players) = 0 THEN conn
    ELSE LET m == Head(mapped_players)
             player_id == IntOf(m.id)
         IN IF player_id = ValueError THEN [conn EXCEPT !.raised = TRUE]
            ELSE UpsertRows([players |-> UpsertPlayerRow(conn.players, player_id.v, m, date),
                             daily_snapshots |-> UpsertSnapshotRow(conn.daily_snapshots,
                                                                   player_id.v, m, date),
                             raised |-> FALSE],
                            Tail(mapped_players), date)

CommitEveryWrite(db, conn) ==
    [players |-> conn.players, daily_snapshots |-> conn.daily_snapshots]
\* conn.commit() follows the loop; an exception leaves upsert_players,
\* save_data and main with the transaction open, and the database drops it
CommitAfterLoop(db, conn) ==
    IF conn.raised THEN db
    ELSE [players |-> conn.players, daily_snapshots |-> conn.daily_snapshots]

\* the records map_player can hand over: player 1 under two names and levels,
\* player 2, and a player whose playerid is missing (id == "")
MappedRecords ==
    {[id |-> PyStr(<<"1">>), name |-> "A", level |-> 10],
     [id |-> PyStr(<<"1">>), name |-> "B", level |-> 20],
     [id |-> PyStr(<<"2">>), name |-> "C", level |-> 10],
     [id |-> PyStr(<<>>), name |-> "D", level |-> 10]}

MaxRecords == 2

MappedLists == UNION {[1..n -> MappedRecords] : n \in 0..MaxRecords}

StoreInit ==
    /\ today = 1
    /\ players = {}
    /\ daily_snapshots = {}
    /\ latest_json = NoLatest
    /\ sent_alerts = NoLedger
    /\ last_notification_date = 0
    /\ run = NoRun
    /\ post_log = [dates |-> <<0, 0>>, posted |-> {}, resent |-> {}, failed |-> {}]
    /\ AlertIdle
    /\ DetectIdle
    /\ ReportIdle
    /\ CallIdle

\* upsert_players(conn, all_mapped, today) in a run of save_data; ret keeps
\* the committed tables the call started from and what its connection saw
\* when it ended
UpsertPlayers ==
    /\ \E mapped_players \in MappedLists :
          \E db \in {[players |-> players, daily_snapshots |-> daily_snapshots]} :
              \E conn \in {UpsertRows([players |-> db.players,
                                       daily_snapshots |-> db.daily_snapshots,
                                       raised |-> FALSE], mapped_players, today)} :
                  \E committed \in {CommitAfterLoop(db, conn)} :
                      /\ players' = committed.players
                      /\ daily_snapshots' = committed.daily_snapshots
                      /\ args' = [mapped_players |-> mapped_players, date |-> today]
                      /\ ret' = [t |-> IF conn.raised THEN "raise" ELSE "ok",
                                 before |-> db,
                                 seen |-> [players |-> conn.players,
                                           daily_snapshots |-> conn.daily_snapshots]]
    /\ UNCHANGED <<today, latest_json, sent_alerts, last_notification_date, run, post_log>>
    /\ UNCHANGED detectVars
    /\ UNCHANGED reportVars
    /\ UNCHANGED alertVars

StoreDays == 2

\* the next run of save_data is on a later day
StoreNextDay ==
    /\ today < StoreDays
    /\ today' = today + 1
    /\ UNCHANGED <<players, daily_snapshots, latest_json, sent_alerts,
                   last_notification_date, run, post_log>>
    /\ UNCHANGED pureVars
    /\ UNCHANGED alertVars

StoreNext == UpsertPlayers \/ StoreNextDay

SpecStore == StoreInit /\ [][StoreNext]_vars

\* the rows of a table under a key
SnapshotRows(rows, player_id, date) ==
    {r \in rows : r.player_id = player_id /\ r.date = date}

\* the text is a decimal integer, written without IntOf
IsIntegerText(id) ==
    /\ Len(id.s) > 0
    /\ \A i \in 1..Len(id.s) : id.s[i] \in {"0", "1", "2", "3", "4", "5", "6", "7", "8", "9"}

IdValue(id) == IF id.s = <<"1">> THEN 1 ELSE 2

\* the positions of the records of the last call written under a key
RecordsFor(player_id) ==
    {i \in 1..Len(args.mapped_players) :
        /\ IsIntegerText(args.mapped_players[i].id)
        /\ IdValue(args.mapped_players[i].id) = player_id}

LastRecordFor(player_id) ==
    args.mapped_players[CHOOSE i \in RecordsFor(player_id) : \A j \in RecordsFor(player_id) : j <= i]

AllRecordsGood ==
    \A i \in 1..Len(args.mapped_players) : IsIntegerText(args.mapped_players[i].id)

\* one row a key at most; after a call that went through, the row of every
\* key of the call holds the values of the last record of the call for it,
\* and every other row is the one from before the call
SnapshotsHoldLatest ==
    /\ \A r1, r2 \in daily_snapshots :
          (r1.player_id = r2.player_id /\ r1.date = r2.date) => r1 = r2
    /\ (ret # PyNone /\ ret.t = "ok") =>
          /\ \A p \in {1, 2} :
                IF RecordsFor(p) # {}
                THEN SnapshotRows(daily_snapshots, p, args.date)
                        = {[player_id |-> p, date |-> args.date,
                            level |-> LastRecordFor(p).level]}
                ELSE SnapshotRows(daily_snapshots, p, args.date)
                        = SnapshotRows(ret.before.daily_snapshots, p, args.date)
          /\ {r \in daily_snapshots : r.date # args.date}
                = {r \in ret.before.daily_snapshots : r.date # args.date}

\* a call that repeats the last one, which went through
IdenticalCall == ret # PyNone /\ ret.t = "ok" /\ args' = args /\ ret'.t = "ok"

\* C19: daily_snapshots holds at most one row per (player_id, date), with the
\* values of the most recent call for the key, and an identical call applied
\* again leaves players and daily_snapshots unchanged
C19_UpsertLatestAndIdempotent ==
    /\ []SnapshotsHoldLatest
    /\ [][IdenticalCall => (players' = players /\ daily_snapshots' = daily_snapshots)]_vars

\* a call found the row of its key written by an earlier call with another
\* level, and left one row with its own level
C19_Witness ==
    /\ ret # PyNone
    /\ ret.t = "ok"
    /\ SnapshotRows(ret.before.daily_snapshots, 1, args.date)
          = {[player_id |-> 1, date |-> args.date, level |-> 10]}
    /\ SnapshotRows(daily_snapshots, 1, args.date)
          = {[player_id |-> 1, date |-> args.date, level |-> 20]}
    /\ \E r \in players : r.player_id = 1 /\ r.first_seen < r.last_seen

\* C20: a call in which a record fails leaves players and daily_snapshots as
\* committed before it; a call in which none fails commits a row for every
\* record
C20_UpsertAtomicPerCall ==
    ret # PyNone =>
        IF AllRecordsGood
        THEN /\ ret.t = "ok"
             /\ \A i \in 1..Len(args.mapped_players) :
                   LET p == IdValue(args.mapped_players[i].id)
                   IN /\ SnapshotRows(daily_snapshots, p, args.date) # {}
                      /\ \E r \in players : r.player_id = p /\ r.last_seen = args.date
        ELSE /\ ret.t = "raise"
             /\ players = ret.before.players
             /\ daily_snapshots = ret.before.daily_snapshots

\* a call wrote the rows of its first record and failed on the second: the
\* rows its connection saw are not in the tables
C20_Witness ==
    /\ ret # PyNone
    /\ ret.t = "raise"
    /\ Len(args.mapped_players) = 2
    /\ ret.seen.daily_snapshots # ret.before.daily_snapshots
    /\ daily_snapshots = ret.before.daily_snapshots
    /\ players = ret.before.players

(***************************************************************************)
(* db.py: get_latest_two_dates on tables holding rows of the alliance and  *)
(* of other alliances.                                                     *)
(***************************************************************************)
\* under a key: no row, a row of the alliance, a row of another alliance
SnapshotChoices == {"none", NCC_ALLIANCE_ID, OTHER_ALLIANCE_ID}

SnapshotKeys == {1, 2} \X (1..MaxDay)

\* the daily_snapshots tables over the keys
SnapshotTables ==
    {[k \in {q \in SnapshotKeys : c[q] # "none"} |->
            [level |-> 10, power |-> 1000, alliance_id |-> c[k]]] :
        c \in [SnapshotKeys -> SnapshotChoices]}

LatestDatesInit ==
    /\ PipelineIdle
    /\ DetectIdle
    /\ ReportIdle
    /\ args \in {[snaps |-> s] : s \in SnapshotTables}
    /\ ret = PyNone

GetLatestTwoDates ==
    /\ ret = PyNone
    /\ ret' = [t |-> "ok", dates |-> get_latest_two_dates(args.snaps)]
    /\ UNCHANGED args
    /\ UNCHANGED detectVars
    /\ UNCHANGED reportVars
    /\ UNCHANGED pipelineVars

LatestDatesNext == GetLatestTwoDates

SpecLatestDates == LatestDatesInit /\ [][LatestDatesNext]_vars

\* the dates under which the table holds a row of the alliance
DatesWithRows ==
    {d \in 1..MaxDay :
        \E p \in {1, 2} : /\ <<p, d>> \in DOMAIN args.snaps
                          /\ args.snaps[<<p, d>>].alliance_id = NCC_ALLIANCE_ID}

\* C21: get_latest_two_dates returns (prev, curr) with curr the greatest and
\* prev the second greatest date holding rows of the alliance, prev < curr, and
\* (None, None), written <<0, 0>>, when fewer than two dates hold such rows
C21_LatestTwoDates ==
    ret # PyNone =>
        LET prev == ret.dates[1]
            curr == ret.dates[2]
        IN IF \E d1, d2 \in DatesWithRows : d1 # d2
           THEN /\ prev \in DatesWithRows
                /\ curr \in DatesWithRows
                /\ prev < curr
                /\ \A d \in DatesWithRows : d <= curr /\ (d < curr => d <= prev)
           ELSE prev = 0 /\ curr = 0

\* two dates hold rows of the alliance, and a later one rows of others only
C21_Witness ==
    /\ ret # PyNone
    /\ DatesWithRows = {1, 2}
    /\ \E p \in {1, 2} : <<p, 3>> \in DOMAIN args.snaps
    /\ ret.dates = <<1, 2>>

(***************************************************************************)
(* send_failure_alert.py: main, with the clock in hours.                   *)
(***************************************************************************)
\* the 6 of 6 * 3600 seconds
CooldownHours == 6

MaxClock == 13

CooldownNever(exists, last_sent) == FALSE
\* COOLDOWN_FILE.exists() and float(...) went through and
\* time.time() - last_sent < 6 * 3600
CooldownActive(exists, last_sent) ==
    /\ exists
    /\ last_sent.t = "num"
    /\ clock - last_sent.m * Pow10(last_sent.e) < CooldownHours

\* main() of send_failure_alert; the POST is made at the time of the check and
\* the file is written at the time the POST has returned
FailureAlertRun ==
    \E webhook_url \in BOOLEAN, post_ok \in BOOLEAN, took \in 0..1 :
        LET Ran == [NoRun EXCEPT !.prog = "failure_alert"]
            exists == last_failure_alert # PyNone
            last_sent == IF exists THEN PyFloat(last_failure_alert.s) ELSE PyNone
            Exit(code, stop, steps) ==
                /\ run' = [Ran EXCEPT !.exit = code, !.stop = stop, !.steps = steps]
                /\ UNCHANGED <<clock, last_failure_alert, alert_log>>
        IN /\ IF CooldownActive(exists, last_sent) THEN Exit(0, "cooldown", {})
              ELSE IF ~webhook_url THEN Exit(1, "no_webhook", {})
              ELSE IF ~post_ok THEN Exit(1, "post_failed", {"post_webhook"})
              ELSE /\ clock + took <= MaxClock
                   /\ clock' = clock + took
                   /\ alert_log' = alert_log \cup {clock}
                   /\ last_failure_alert' = PyStr(NatStr(clock + took))
                   /\ run' = [Ran EXCEPT !.stop = "sent", !.steps = {"post_webhook"}]
           /\ UNCHANGED <<today, players, daily_snapshots, latest_json, sent_alerts,
                          last_notification_date, post_log>>
           /\ UNCHANGED pureVars

\* an hour passes between two runs
Tick ==
    /\ clock < MaxClock
    /\ clock' = clock + 1
    /\ UNCHANGED <<today, players, daily_snapshots, latest_json, sent_alerts,
                   last_notification_date, run, post_log, last_failure_alert, alert_log>>
    /\ UNCHANGED pureVars

\* the cooldown file does not exist, or holds something float() refuses
FailureAlertInit ==
    /\ DetectIdle
    /\ ReportIdle
    /\ CallIdle
    /\ today = 1
    /\ FilesIdle
    /\ clock = 0
    /\ alert_log = {}
    /\ last_failure_alert \in {PyNone, PyStr(<<"x">>)}

FailureAlertNext == FailureAlertRun \/ Tick

SpecFailureAlert == FailureAlertInit /\ [][FailureAlertNext]_vars

\* the pull and the three notification entry points, run in any order
EntryPointsNext ==
    \/ PullFetchFailed
    \/ PullRun(ThinScrapes)
    \/ HourlyRun
    \/ DailyRun
    \/ FailureAlertRun
    \/ NextDay

SpecEntryPoints == Init /\ [][EntryPointsNext]_vars

\* C22: in the daily report, the hourly alerts and the failure alert, a run
\* that finds no webhook URL posts nothing and ends with exit status 0
C22_NoWebhookIsNoError ==
    run.stop = "no_webhook" => (run.exit = 0 /\ "post_webhook" \notin run.steps)

\* the failure alert found no webhook URL
C22_Witness ==
    /\ run.prog = "failure_alert"
    /\ run.stop = "no_webhook"
    /\ run.exit = 1
    /\ alert_log = {}

\* the posted alerts are 6 hours apart or more, and the file holds the time
\* at which a posted alert's POST had returned
AlertsApart ==
    /\ \A t1, t2 \in alert_log : t1 < t2 => t2 - t1 >= 6
    /\ (last_failure_alert # PyNone /\ last_failure_alert # PyStr(<<"x">>)) =>
          \E t \in alert_log, took \in 0..1 : last_failure_alert = PyStr(NatStr(t + took))

\* a run of the failure alert posted
AlertPosted == alert_log' # alert_log

\* C23: a failure alert is posted only when none was posted in the 6 hours
\* before, two posted alerts are 6 hours apart or more, and the cooldown file
\* is written by a run that posted and by no other
C23_FailureAlertCooldown ==
    /\ []AlertsApart
    /\ [][/\ AlertPosted => \A t \in alert_log : clock - t >= 6
          /\ (last_failure_alert' # last_failure_alert) => AlertPosted]_vars

\* a second alert was posted 6 hours after the first had returned, after a
\* POST that failed left the file alone
C23_Witness ==
    /\ Cardinality(alert_log) = 2
    /\ run.stop = "sent"
    /\ \E t \in alert_log : last_failure_alert = PyStr(NatStr(t + 1))
    /\ \E t1, t2 \in alert_log : t2 - t1 = 7

(***************************************************************************)
(* Properties of the daily report run.                                     *)
(***************************************************************************)
\* the step is a run of send_discord_notification
DailyStep == today' = today /\ run'.prog = "daily"

\* C24: the daily report is posted at most once a day: a run posts only when
\* the marker is not today's date and a posted report sets it to today's date,
\* a run that finds the marker at today's date posts nothing, a run whose POST
\* fails leaves the marker alone, and nothing else writes the marker
C24_DailyReportOncePerDay ==
    /\ [](last_notification_date <= today)
    /\ [][/\ (DailyStep /\ "post_webhook" \in run'.steps) =>
                last_notification_date # today
          /\ (DailyStep /\ run'.stop = "sent") => last_notification_date' = today
          /\ (DailyStep /\ run'.stop = "post_failed") =>
                last_notification_date' = last_notification_date
          /\ (last_notification_date' # last_notification_date) =>
                (DailyStep /\ run'.stop = "sent")]_vars

\* on a later day than the first report, a run found the marker at today's
\* date and posted nothing
C24_Witness ==
    /\ run.prog = "daily"
    /\ run.stop = "already_sent"
    /\ "post_webhook" \notin run.steps
    /\ last_notification_date = today
    /\ today > 1

(***************************************************************************)
(* send_hourly_alerts.py: build_alert_embeds, embed by embed.              *)
(***************************************************************************)
NonEmptyAlways(items) == TRUE
\* if changes[change_type]:
NonEmpty(items) == Len(items) > 0

\* power = format_abbr(parse_abbr(m["power"])), and the line of the member
MemberLine(m) ==
    LET parsed == parse_abbr(m.power)
    IN IF parsed.t = "raise" THEN parsed
       ELSE [t |-> "line", name |-> m.name, power |-> format_abbr(parsed, FALSE)]

\* the embed of a category: title, colour, and the lines joined into the
\* description; extra is the blank line and the message under the level-ups
AlertEmbed(title, color, items, extra) ==
    [title |-> title, color |-> color,
     lines |-> [i \in DOMAIN items |-> MemberLine(items[i])] \o extra]

\* build_alert_embeds(changes); message is what random.choice picks
AlertEmbeds(c, message) ==
    LET joined == IF NonEmpty(c.joined)
                  THEN <<AlertEmbed("Member Joined", "green", c.joined, <<>>)>> ELSE <<>>
        left == IF NonEmpty(c.left)
                THEN <<AlertEmbed("Member Left", "red", c.left, <<>>)>> ELSE <<>>
        level_ups == IF NonEmpty(c.level_ups)
                     THEN <<AlertEmbed("Level Up", "blue", c.level_ups,
                                       <<[t |-> "text", s |-> ""], [t |-> "text", s |-> message]>>)>>
                     ELSE <<>>
        embeds == joined \o left \o level_ups
    IN IF \E i \in DOMAIN embeds : \E j \in DOMAIN embeds[i].lines :
              embeds[i].lines[j].t = "raise"
       THEN ValueError
       ELSE [t |-> "ok", embeds |-> embeds]

MaxEvents == 2

\* the members of the events: names P1, P2, ..., power as the database holds it
EventMember(i) ==
    [name |-> PyStr(<<"P">> \o NatStr(i)), level |-> PyInt(39 + i),
     old_level |-> PyInt(38 + i), new_level |-> PyInt(39 + i),
     power |-> IF i = 1 THEN PyInt(0) ELSE PyInt(1500000)]

\* the lists of events of one category: members in any order, none twice
EventLists ==
    {[i \in DOMAIN q |-> EventMember(q[i])] :
        q \in {s \in UNION {[1..n -> 1..MaxEvents] : n \in 0..MaxEvents} :
                  \A i, j \in DOMAIN s : i # j => s[i] # s[j]}}

EmbedsInit ==
    /\ PipelineIdle
    /\ DetectIdle
    /\ ReportIdle
    /\ args \in {[changes |-> [joined |-> j, left |-> l, level_ups |-> u]] :
                    j \in EventLists, l \in EventLists, u \in EventLists}
    /\ ret = PyNone

BuildAlertEmbeds ==
    /\ ret = PyNone
    /\ \E message \in {"Congrats! Keep climbing!", "Unstoppable!"} :
          ret' = AlertEmbeds(args.changes, message)
    /\ UNCHANGED args
    /\ UNCHANGED detectVars
    /\ UNCHANGED reportVars
    /\ UNCHANGED pipelineVars

EmbedsNext == BuildAlertEmbeds

SpecEmbeds == EmbedsInit /\ [][EmbedsNext]_vars

\* the titles of the embeds due for a change set, category by category
TitlesDue ==
    (IF args.changes.joined # <<>> THEN <<"Member Joined">> ELSE <<>>)
        \o (IF args.changes.left # <<>> THEN <<"Member Left">> ELSE <<>>)
        \o (IF args.changes.level_ups # <<>> THEN <<"Level Up">> ELSE <<>>)

\* C25: build_alert_embeds returns one embed for each non-empty category among
\* joined, left and level_ups, in that order, none for an empty category, and
\* an empty list for an empty change set
C25_OneEmbedPerNonEmptyCategory ==
    ret # PyNone =>
        /\ ret.t = "ok"
        /\ [i \in DOMAIN ret.embeds |-> ret.embeds[i].title] = TitlesDue
        /\ (\A k \in {"joined", "left", "level_ups"} : args.changes[k] = <<>>) =>
              ret.embeds = <<>>

\* members joined and levelled up, none left: two embeds, joined first
C25_Witness ==
    /\ ret # PyNone
    /\ Len(args.changes.joined) = 2
    /\ args.changes.left = <<>>
    /\ Len(args.changes.level_ups) = 1
    /\ Len(ret.embeds) = 2
    /\ ret.embeds[1].title = "Member Joined"
    /\ Len(ret.embeds[1].lines) = 2
    /\ ret.embeds[2].title = "Level Up"

(***************************************************************************)
(* More properties of find_inactive, under SpecInactive.                   *)
(***************************************************************************)
\* the retained snapshots: those with a non-empty member map but the last
Retained == NonEmptySnapshots \ {i \in NonEmptySnapshots : \A j \in NonEmptySnapshots : j <= i}

\* the retained snapshots that have one before them, and which one
HasEarlier(i) == \E j \in Retained : j < i

Earlier(i) == CHOOSE j \in Retained : j < i /\ \A k \in Retained : k < i => k <= j

\* the pairs of adjacent retained snapshots at i and later all hold the member
\* unchanged
UnchangedFrom(id, i) ==
    \A j \in Retained : (j >= i /\ HasEarlier(j)) => SameTracked(id, Earlier(j), j)

\* the length of the run of unchanged pairs that ends at the last retained snapshot
Streak(id) == Cardinality({i \in Retained : HasEarlier(i) /\ UnchangedFrom(id, i)})

\* the members of the current list with an id and a streak
Streaking == {k \in DOMAIN members : "id" \in DOMAIN members[k] /\ Streak(members[k].id.s) > 0}

LatestValid == CHOOSE i \in NonEmptySnapshots : \A j \in NonEmptySnapshots : j <= i

\* the member maps that are not empty
FilledMaps == {mp \in SnapMaps : mp # <<>>}

Filled(h) == "members" \in DOMAIN h /\ DOMAIN h.members # {}

\* C28: find_inactive gives the same result on the history with every entry
\* of an empty member map removed
C28_EmptySnapshotsRemoved ==
    inactive # PyNone => find_inactive(members, SelectSeq(history, Filled)) = inactive

\* an empty member map lies between two snapshots in which X is unchanged, and
\* the pair counts as a day
C28_Witness ==
    /\ inactive # PyNone
    /\ Len(history) = 4
    /\ NonEmptySnapshots = {1, 3, 4}
    /\ "members" \in DOMAIN history[2]
    /\ \E i \in DOMAIN inactive.list : inactive.list[i] = [name |-> NameX, days |-> 1]

(***************************************************************************)
(* The sent-alert ledger from run to run, under SpecHourly.                *)
(***************************************************************************)
\* the stops of the hourly run that come before the POSTs
EarlyStops == {"not_enough_snapshots", "below_threshold", "exception", "no_changes",
               "already_alerted", "no_webhook"}

\* a step that is a run of send_hourly_alerts
HourlyStep == run'.prog = "hourly" /\ UNCHANGED <<today, daily_snapshots>>

\* C29: while the ledger keeps its date pair its key set only grows, a save
\* under the ledger's pair writes the stored keys and the keys attempted, and
\* an hourly run that stops before the POSTs leaves the ledger as it was
C29_LedgerOnlyGrows ==
    [][/\ (sent_alerts.exists /\ sent_alerts'.dates = sent_alerts.dates)
            => sent_alerts.sent \subseteq sent_alerts'.sent
       /\ (HourlyStep /\ run'.stop = "sent" /\ sent_alerts.exists
             /\ sent_alerts.dates = run'.dates)
            => sent_alerts'.sent = sent_alerts.sent \cup run'.attempted
       /\ (HourlyStep /\ run'.stop \in EarlyStops) => sent_alerts' = sent_alerts]_vars

\* a second run over one date pair added new keys to the ones stored
C29_Witness ==
    /\ run.prog = "hourly"
    /\ run.stop = "sent"
    /\ run.saved_dates = run.dates
    /\ run.saved_keys # {}
    /\ run.attempted # {}
    /\ sent_alerts.dates = run.dates
    /\ sent_alerts.sent = run.saved_keys \cup run.attempted
    /\ run.saved_keys \cap run.attempted = {}

(***************************************************************************)
(* db.py: upsert_players and import_history_json on one database, with     *)
(* dates in any order.                                                     *)
(***************************************************************************)
BackfillDays == 2

MaxEntries == 2

\* MIN and MAX of SQLite on two dates
MinDate(a, b) == IF a <= b THEN a ELSE b

MaxDate(a, b) == IF a >= b THEN a ELSE b

\* INSERT INTO players ... ON CONFLICT(player_id) DO UPDATE SET name = CASE ...,
\* first_seen = MIN(...), last_seen = MAX(...) of import_history_json
ImportPlayerRow(rows, player_id, name, date) ==
    IF \E r \in rows : r.player_id = player_id
    THEN {IF r.player_id = player_id
          THEN [r EXCEPT !.name = IF date > r.last_seen THEN name ELSE r.name,
                         !.first_seen = MinDate(r.first_seen, date),
                         !.last_seen = MaxDate(r.last_seen, date)]
          ELSE r : r \in rows}
    ELSE rows \cup {[player_id |-> player_id, name |-> name,
                     first_seen |-> date, last_seen |-> date]}

\* for pid_str, m in members.items(): both upserts of one entry
RECURSIVE ImportMembers(_, _, _)
ImportMembers(conn, items, date) ==
    IF Len(items) = 0 THEN conn
    ELSE LET pid_str == Head(items)[1]
             m == Head(items)[2]
             player_id == IntOf(pid_str)
             level == db_parse_abbr(m.level)
         IN ImportMembers([players |-> ImportPlayerRow(conn.players, player_id.v, m.name, date),
                           daily_snapshots |->
                               UpsertSnapshotRow(conn.daily_snapshots, player_id.v,
                                                 [level |-> IntValue(level)], date),
                           raised |-> FALSE],
                          Tail(items), date)

\* for entry in history
RECURSIVE ImportEntries(_, _)
ImportEntries(conn, entries) ==
    IF Len(entries) = 0 THEN conn
    ELSE ImportEntries(ImportMembers(conn, Head(entries).members, Head(entries).date),
                       Tail(entries))

\* the member maps of a history.json entry, in the order of their keys
HistoryMembers ==
    {<<>>,
     <<<<PyStr(<<"1">>), [name |-> "A", level |-> PyStr(<<"1", "0">>)]>>>>,
     <<<<PyStr(<<"2">>), [name |-> "C", level |-> PyStr(<<"1", "0">>)]>>,
       <<PyStr(<<"1">>), [name |-> "B", level |-> PyStr(<<"2", "0">>)]>>>>}

HistoryEntries == [date : 1..BackfillDays, members : HistoryMembers]

\* history.json: missing, or a list of entries
HistoryFiles ==
    {[exists |-> FALSE, entries |-> <<>>]}
       \cup {[exists |-> TRUE, entries |-> e] :
                e \in UNION {[1..n -> HistoryEntries] : n \in 0..MaxEntries}}

BackfillInit == StoreInit

\* upsert_players(conn, mapped_players, date), the date any day
UpsertPlayersOn ==
    /\ \E date \in 1..BackfillDays, mapped_players \in MappedLists :
          \E db \in {[players |-> players, daily_snapshots |-> daily_snapshots]} :
              \E conn \in {UpsertRows([players |-> db.players,
                                       daily_snapshots |-> db.daily_snapshots,
                                       raised |-> FALSE], mapped_players, date)} :
                  \E committed \in {CommitAfterLoop(db, conn)} :
                      /\ players' = committed.players
                      /\ daily_snapshots' = committed.daily_snapshots
                      /\ args' = [date |-> date]
                      /\ ret' = [t |-> IF conn.raised THEN "raise" ELSE "ok",
                                 op |-> "upsert_players"]
    /\ UNCHANGED <<today, latest_json, sent_alerts, last_notification_date, run, post_log>>
    /\ UNCHANGED detectVars
    /\ UNCHANGED reportVars
    /\ UNCHANGED alertVars

\* import_history_json(conn)
ImportHistoryJson ==
    /\ \E history_file \in HistoryFiles :
          IF ~history_file.exists
          THEN /\ UNCHANGED <<players, daily_snapshots>>
               /\ args' = [date |-> 0]
               /\ ret' = [t |-> "ok", op |-> "skip_import"]
          ELSE \E conn \in {ImportEntries([players |-> players,
                                           daily_snapshots |-> daily_snapshots,
                                           raised |-> FALSE], history_file.entries)} :
                  /\ players' = conn.players
                  /\ daily_snapshots' = conn.daily_snapshots
                  /\ args' = [date |-> 0]
                  /\ ret' = [t |-> "ok", op |-> "import_history_json"]
    /\ UNCHANGED <<today, latest_json, sent_alerts, last_notification_date, run, post_log>>
    /\ UNCHANGED detectVars
    /\ UNCHANGED reportVars
    /\ UNCHANGED alertVars

BackfillNext == UpsertPlayersOn \/ ImportHistoryJson

SpecBackfill == BackfillInit /\ [][BackfillNext]_vars

\* every row of players was first seen no later than it was last seen
SeenInOrder == \A r \in players : r.first_seen <= r.last_seen

\* every row of players is still there after the step, first seen no later
\* than before
RowsKept ==
    \A r \in players :
        \E q \in players' : q.player_id = r.player_id /\ q.first_seen <= r.first_seen

\* C30: after any sequence of upsert_players and import_history_json calls,
\* the dates in any order, every players row has first_seen <= last_seen, no
\* call raises a first_seen and no call deletes a row
C30_SeenDatesOrdered == []SeenInOrder /\ [][RowsKept]_vars

\* upsert_players ran for a date before the day a row was first seen
C30_Witness ==
    /\ ret # PyNone
    /\ ret.op = "upsert_players"
    /\ ret.t = "ok"
    /\ \E r \in players : r.last_seen = args.date /\ args.date < r.first_seen

=============================================================================
